---- MODULE Spec2Model ----
(***************************************************************************)
(* Recovery/dispatch layer of the extended text/template engine:           *)
(* the ErrorManager registry (Template.ErrorManagers), the matching        *)
(* predicate (ErrorManager.CanManage, Context.match) and the recovery      *)
(* loop (Context.tryRecover) entered from state.result and state.format.   *)
(*                                                                         *)
(* Texts that the code compares, sorts or matches (group names of the      *)
(* registry, error texts, filter literals) are sequences of character      *)
(* codes; names that are only tested for equality are TLA+ strings.        *)
(***************************************************************************)
EXTENDS Integers, Sequences, FiniteSets

VARIABLES
    managers,    \* Template.errorHandlers.managers : map[string]ErrorManagers
    keys,        \* Template.errorHandlers.keys     : []string
    missingKey,  \* Template.option.missingKey      : missingKeyAction
    ctx,         \* the Context of the last state.result / state.format call
    orig,        \* the arguments that call was made with
    invoked,     \* the handlers run by that call, in order: <<key, index>>
    ret,         \* what that call returned
    em,          \* an ErrorManager built with the builder methods
    probe,       \* the last CanManage evaluation of em
    removed,     \* the group the last ErrorManagers call removed, if it removed one
    call,        \* a call made through Context.Call / callInternal and its outcome
    exec         \* the execution of a template with a range loop: its output and position

vars == <<managers, keys, missingKey, ctx, orig, invoked, ret, em, probe, removed, call, exec>>

\* -------------------------------------------------------------- bounds

\* Longest error text drawn for a failing context.
MaxTextLen == 2

\* Deepest call stack drawn.
MaxStack == 3

\* Number of texts and values drawn for the failures raised.
MaxPanic == 5

\* Largest Option value drawn.
MaxOption == 255

\* Largest engine action value drawn for the conversions.
MaxAction == 40

\* -------------------------------------------------------------- enumerations

\* ContextSource, 1 << iota
FieldError == 1
CallContext == 2
CallError == 4
\* the source named Print in the code (renamed: the TLC module defines that name)
PrintSource == 8

\* MissingAction, 1 << iota
Invalid == 1
ZeroValue == 2
Error == 4

\* missingKeyAction of the engine
mapInvalid == 0
mapZeroValue == 1
mapError == 2

\* ErrorAction, iota
NoReplace == 0
ResultReplaced == 1
ResultAsArray == 2

\* Width of the byte types ContextSource and MissingAction.
ByteBits == 8

\* flowControl
fcFlow == 0
fcBreak == 1
fcContinue == 2
fcReturn == 3

\* Option: 1 << iota
FunctionsAsMethods == 1
FunctionsWithContext == 2
PublicFunctions == 4
Trap == 8
Eval == 16
OptFlowControl == 32

\* -------------------------------------------------------------- helpers

None == <<>>
Some(x) == <<x>>

RECURSIVE BitOp(_, _, _, _)
\* Bitwise combination of two bytes, bit by bit: op is "and" or "or".
BitOp(op, a, b, n) ==
    IF n = 0 THEN 0
    ELSE LET x == a % 2
             y == b % 2
             bit == IF op = "and" THEN (IF x = 1 /\ y = 1 THEN 1 ELSE 0)
                    ELSE (IF x = 1 \/ y = 1 THEN 1 ELSE 0)
         IN bit + 2 * BitOp(op, a \div 2, b \div 2, n - 1)

BitAnd(a, b) == BitOp("and", a, b, ByteBits)
BitOr(a, b) == BitOp("or", a, b, ByteBits)

\* Call = CallContext | CallError
Call == BitOr(CallContext, CallError)

RECURSIVE LexLess(_, _)
\* a < b for Go strings: byte-wise lexicographic, a proper prefix first.
LexLess(a, b) ==
    IF a = <<>> THEN b # <<>>
    ELSE IF b = <<>> THEN FALSE
    ELSE IF Head(a) # Head(b) THEN Head(a) < Head(b)
    ELSE LexLess(Tail(a), Tail(b))

RECURSIVE InsertSorted(_, _)
InsertSorted(s, x) ==
    IF s = <<>> THEN <<x>>
    ELSE IF LexLess(x, Head(s)) THEN <<x>> \o s
    ELSE <<Head(s)>> \o InsertSorted(Tail(s), x)

\* mutant of SortStrings: the key list is left in map iteration order
SortStringsNoop(s) == s

RECURSIVE SortStrings(_)
\* sort.Strings(keys)
SortStrings(s) ==
    IF s = <<>> THEN <<>>
    ELSE InsertSorted(SortStrings(Tail(s)), Head(s))

\* The orders in which ranging over a Go map with key set S can yield its keys.
MapOrders(S) ==
    {s \in [1..Cardinality(S) -> S] : {s[i] : i \in 1..Cardinality(S)} = S}

\* mutant of MapDelete: every key is dropped
MapDeleteAll(m, k) == [x \in {} |-> m[x]]

\* delete(m, k)
MapDelete(m, k) == [x \in (DOMAIN m) \ {k} |-> m[x]]

\* m[k] = v
MapSet(m, k, v) == [x \in (DOMAIN m) \cup {k} |-> IF x = k THEN v ELSE m[x]]

\* m[k] of a map whose values are texts: the zero value "" for an absent key
MapGet(m, k) == IF k \in DOMAIN m THEN m[k] ELSE <<>>

EmptyMap == [x \in {} |-> <<>>]

\* -------------------------------------------------------------- regexp

\* A compiled filter is a sequence of segments: a literal text, or a capture
\* group whose body is a greedy run of any characters (dot star, or dot plus
\* with min = 1), named as in ?P<name> or unnamed (name "").
Lit(t) == [kind |-> "lit", text |-> t, name |-> "", min |-> 0]
Grp(n, least) == [kind |-> "grp", text |-> <<>>, name |-> n, min |-> least]

\* text[pos .. pos+Len(t)-1] = t
HasAt(text, pos, t) ==
    /\ pos + Len(t) - 1 <= Len(text)
    /\ \A i \in 1..Len(t) : text[pos + i - 1] = t[i]

SetMax(S) == CHOOSE x \in S : \A y \in S : y <= x
SetMin(S) == CHOOSE x \in S : \A y \in S : x <= y

RECURSIVE MatchFrom(_, _, _)

NoMatch(pos) == [ok |-> FALSE, end |-> pos, groups |-> <<>>]

\* a group that took text[pos .. pos+n-1], followed by the match of the rest
GroupTook(text, pos, n, rest) ==
    [ok |-> TRUE, end |-> rest.end,
     groups |-> <<SubSeq(text, pos, pos + n - 1)>> \o rest.groups]

\* a greedy group: of the lengths after which the rest matches, the longest
GroupMatch(segs, text, pos, lens) ==
    IF lens = {} THEN NoMatch(pos)
    ELSE GroupTook(text, pos, SetMax(lens),
                   MatchFrom(Tail(segs), text, pos + SetMax(lens)))

\* The leftmost-first match of the segments against text from position pos:
\* a group takes the longest run after which the rest still matches.
MatchFrom(segs, text, pos) ==
    IF segs = <<>> THEN [ok |-> TRUE, end |-> pos, groups |-> <<>>]
    ELSE IF Head(segs).kind = "lit"
         THEN IF HasAt(text, pos, Head(segs).text)
              THEN MatchFrom(Tail(segs), text, pos + Len(Head(segs).text))
              ELSE NoMatch(pos)
         ELSE GroupMatch(segs, text, pos,
                         {n \in Head(segs).min..(Len(text) - pos + 1) :
                             MatchFrom(Tail(segs), text, pos + n).ok})

\* the whole match, from p to the end of m, then each group of m
Submatch(text, p, m) == <<SubSeq(text, p, m.end - 1)>> \o m.groups

\* the match at the leftmost of the positions where re matches, nil if none
SubmatchAt(re, text, starts) ==
    IF starts = {} THEN <<>>
    ELSE Submatch(text, SetMin(starts), MatchFrom(re, text, SetMin(starts)))

\* regexp.FindStringSubmatch: the whole match then each group, or nil
FindStringSubmatch(re, text) ==
    SubmatchAt(re, text, {p \in 1..(Len(text) + 1) : MatchFrom(re, text, p).ok})

RECURSIVE GroupNames(_)
GroupNames(segs) ==
    IF segs = <<>> THEN <<>>
    ELSE IF Head(segs).kind = "grp" THEN <<Head(segs).name>> \o GroupNames(Tail(segs))
    ELSE GroupNames(Tail(segs))

\* regexp.SubexpNames: names[0] is always the empty string
SubexpNames(re) == <<"">> \o GroupNames(re)

\* fmt.Sprint(i) of a small non negative int
Sprint(i) == <<"0", "1", "2", "3", "4", "5", "6", "7", "8", "9">>[i + 1]

\* -------------------------------------------------------------- values

(* A reflect.Value: its kind, its content (the text of a string, the        *)
(* elements of a slice), ro for a value read through an unexported field,   *)
(* member for the result of a member access applied to the content.         *)
Value(kind, data) == [kind |-> kind, data |-> data, ro |-> FALSE, member |-> ""]

\* reflect.Value{}, also reflect.ValueOf(nil)
nilv == Value("Invalid", <<>>)
StringValue(t) == Value("String", <<t>>)
SliceValue(elems) == Value("Slice", elems)
\* the zero value of an interface type
NilInterface == Value("Interface", <<>>)

\* isValid(value)
isValid(value) ==
    value.kind # "Invalid" /\ ~value.ro /\ value.kind # "Interface"

\* -------------------------------------------------------------- enum methods

\* ContextSource.IsSet: return s|value != 0
SourceIsSet(s, value) == BitOr(s, value) # 0

\* MissingAction.IsSet: return a|value != 0
ModeIsSet(a, value) == BitOr(a, value) # 0

\* mutant of ConvertToNative: the table holds the three actions one after another
ConvertToNativePacked(a) ==
    IF a < Invalid \/ a > Error THEN mapInvalid
    ELSE <<mapInvalid, mapZeroValue, mapError, mapInvalid>>[(a - 1) + 1]

\* MissingAction.convert: the public action as the engine's missingKeyAction
ConvertToNative(a) ==
    IF a < Invalid \/ a > Error THEN mapInvalid
    ELSE <<mapInvalid, mapZeroValue, mapInvalid, mapError>>[(a - 1) + 1]

\* missingKeyAction.convert: the engine's action as the public MissingAction
ConvertToPublic(a) == <<Invalid, ZeroValue, Error>>[a + 1]

\* Template.MissingMode
MissingMode(mk) == ConvertToPublic(mk)

\* -------------------------------------------------------------- ErrorManager

\* A handler function as far as the recovery loop observes it: the action it
\* returns, what it does to the failure slot (keep it, or clear it with
\* ClearError) and the value it returns.
Handler(act, errop, val) == [act |-> act, errop |-> errop, val |-> val]

RECURSIVE OrAll(_, _)
OrAll(mask, list) ==
    IF list = <<>> THEN mask ELSE OrAll(BitOr(mask, Head(list)), Tail(list))

\* ErrorManager.Filters
Filters(m, filters) == [m EXCEPT !.filters = @ \o filters]

\* NewErrorManager(handler, filters...)
NewErrorManager(handler, filters) ==
    Filters([fun |-> handler, source |-> 0, mode |-> 0, members |-> <<>>,
             kinds |-> <<>>, filters |-> <<>>], filters)

\* ErrorManager.OnSources
OnSources(m, sources) == [m EXCEPT !.source = OrAll(@, sources)]

\* ErrorManager.OnActions
OnActions(m, modes) == [m EXCEPT !.mode = OrAll(@, modes)]

\* ErrorManager.OnMembers
OnMembers(m, members) == [m EXCEPT !.members = @ \o members]

\* ErrorManager.OnKinds
OnKinds(m, kinds) == [m EXCEPT !.kinds = @ \o kinds]

\* -------------------------------------------------------------- Context

\* state.newContext: the fields the recovery loop reads; matches starts nil
newContext(source, err, name, receiver, result) ==
    [source |-> source, err |-> err, name |-> name, receiver |-> receiver,
     result |-> result, matches |-> EmptyMap]

\* Context.ErrorText: c.err.Error()
ErrorText(c) == c.err[1]

\* Context.Match(name): c.matches[fmt.Sprint(name)]
Match(c, name) == MapGet(c.matches, name)

RECURSIVE FillMatches(_, _, _, _)
\* the loop of Context.match over the submatches, i counting from 0
FillMatches(m, matches, subexp, i) ==
    IF i >= Len(matches) THEN m
    ELSE LET m1 == MapSet(m, Sprint(i), matches[i + 1])
             m2 == IF subexp[i + 1] # "" THEN MapSet(m1, subexp[i + 1], matches[i + 1])
                   ELSE m1
         IN FillMatches(m2, matches, subexp, i + 1)

\* Context.match after FindStringSubmatch: false on no match, else the groups
\* are recorded in a fresh map under their index and their name
RecordMatches(c, re, matches) ==
    IF Len(matches) = 0 THEN [ok |-> FALSE, c |-> c, panic |-> FALSE]
    ELSE [ok |-> TRUE,
          c |-> [c EXCEPT !.matches = FillMatches(EmptyMap, matches, SubexpNames(re), 0)],
          panic |-> FALSE]

\* Context.match(re): whether re matches the failure text; records the groups.
\* c.ErrorText() is c.err.Error(), which panics on a nil c.err before any
\* matching is done
ContextMatch(c, re) ==
    IF c.err = None THEN [ok |-> FALSE, c |-> c, panic |-> TRUE]
    ELSE RecordMatches(c, re, FindStringSubmatch(re, ErrorText(c)))

RECURSIVE InList(_, _, _)
\* for i := 0; !match && i < len(list); i++ { match = list[i] == x }
InList(list, x, i) ==
    IF i > Len(list) THEN FALSE
    ELSE IF list[i] = x THEN TRUE
    ELSE InList(list, x, i + 1)

RECURSIVE MatchFilters(_, _, _)

\* if context.match(re) { return true }, else on to the next filter
FilterTried(filters, i, r) ==
    IF r.ok \/ r.panic THEN r ELSE MatchFilters(filters, r.c, i + 1)

\* mutant of MatchFilters: the filter after the first one is never tried
MatchFiltersFirstOnly(filters, c, i) ==
    IF i > Len(filters) \/ i > 1 THEN [ok |-> FALSE, c |-> c, panic |-> FALSE]
    ELSE ContextMatch(c, filters[i])

\* for _, re := range em.filters { if context.match(re) { return true } }
MatchFilters(filters, c, i) ==
    IF i > Len(filters) THEN [ok |-> FALSE, c |-> c, panic |-> FALSE]
    ELSE FilterTried(filters, i, ContextMatch(c, filters[i]))

\* mutant of MembersPass: a non-empty allow-list lets every member through
MembersPassAny(m, c) == TRUE

\* the member allow-list test of CanManage
MembersPass(m, c) == Len(m.members) = 0 \/ InList(m.members, c.name, 1)

\* mutant of KindsPass: a non-empty allow-list lets every kind through
KindsPassAny(m, c) == TRUE

\* the receiver kind allow-list test of CanManage
KindsPass(m, c) == Len(m.kinds) = 0 \/ InList(m.kinds, c.receiver.kind, 1)

\* the source and mode mask test of CanManage
MasksPass(m, c, mk) ==
    ~(\/ m.source # 0 /\ ~SourceIsSet(m.source, c.source)
      \/ m.mode # 0 /\ ~ModeIsSet(m.mode, MissingMode(mk)))

\* after the filter loop: return len(em.filters) == 0
FiltersEnd(m, r) ==
    IF r.ok \/ r.panic THEN r
    ELSE [ok |-> Len(m.filters) = 0, c |-> r.c, panic |-> FALSE]

\* mutant of FiltersPass: the filters are tried without looking at the failure
FiltersPassUnguarded(m, c) == FiltersEnd(m, MatchFilters(m.filters, c, 1))

\* the filter test that ends CanManage
FiltersPass(m, c) ==
    IF c.err # None THEN FiltersEnd(m, MatchFilters(m.filters, c, 1))
    ELSE [ok |-> Len(m.filters) = 0, c |-> c, panic |-> FALSE]

\* ErrorManager.CanManage(context): the answer and the context with the match
\* groups it recorded; mk is the template's missingKey option
CanManage(m, c, mk) ==
    IF ~MasksPass(m, c, mk) THEN [ok |-> FALSE, c |-> c, panic |-> FALSE]
    ELSE IF ~MembersPass(m, c) THEN [ok |-> FALSE, c |-> c, panic |-> FALSE]
    ELSE IF ~KindsPass(m, c) THEN [ok |-> FALSE, c |-> c, panic |-> FALSE]
    ELSE FiltersPass(m, c)

\* -------------------------------------------------------------- recovery

\* the text a handler substitutes ("Zero" in the tests)
ZeroText == <<1, 2, 1>>

\* the failure a handler writes with context.SetError(err)
HandlerFailure == Some(<<2, 2>>)

\* handler.fun(c): the returned value and action, and the context after the call
HandlerFun(h, c) ==
    LET c1 == IF h.errop = "clear" THEN [c EXCEPT !.err = None]
              ELSE IF h.errop = "set" THEN [c EXCEPT !.err = HandlerFailure]
              ELSE c
        value == CASE h.val = "zero" -> StringValue(ZeroText)
                   [] h.val = "receiver" -> c.receiver
                   [] h.val = "match" -> StringValue(Match(c, "error"))
                   [] OTHER -> nilv
    IN [value |-> value, action |-> h.act, c |-> c1]

\* Context.key(key): the list registered under key, nil when there is none
ContextKey(ms, key) == IF key \in DOMAIN ms THEN ms[key] ELSE <<>>

\* mutant of ScanEnds: the scan never ends early
ScanEndsNever(c) == FALSE

\* tryRecover, after a substitution: if c.Error() == nil { return }
ScanEnds(c) == c.err = None

\* c.SetResult(reflect.ValueOf(value)); result = action; return on no failure
Substituted(st2, ki, hi) ==
    [st |-> st2, ki |-> ki, hi |-> hi + 1, stop |-> ScanEnds(st2.c)]

\* mutant of ScanHandled: the value is written whatever the action is
ScanHandledAlways(st, h, ran, ki, hi) ==
    Substituted([c |-> [h.c EXCEPT !.result = h.value], invoked |-> ran,
                 action |-> h.action], ki, hi)

\* after handler.fun(c) returned h: a substitution unless the action is NoReplace
ScanHandled(st, h, ran, ki, hi) ==
    IF h.action # NoReplace
    THEN Substituted([c |-> [h.c EXCEPT !.result = h.value], invoked |-> ran,
                      action |-> h.action], ki, hi)
    ELSE [st |-> [c |-> h.c, invoked |-> ran, action |-> st.action],
          ki |-> ki, hi |-> hi + 1, stop |-> FALSE]

\* if !handler.CanManage(c) { continue }, else the handler is called
ScanManager(st, m, cm, key, ki, hi) ==
    IF ~cm.ok
    THEN [st |-> [st EXCEPT !.c = cm.c], ki |-> ki, hi |-> hi + 1, stop |-> FALSE]
    ELSE ScanHandled(st, HandlerFun(m.fun, cm.c), Append(st.invoked, <<key, hi>>), ki, hi)

\* the inner loop at index hi of the list of a key
ScanList(st, list, key, mk, ki, hi) ==
    IF hi > Len(list) THEN [st |-> st, ki |-> ki + 1, hi |-> 1, stop |-> FALSE]
    ELSE ScanManager(st, list[hi], CanManage(list[hi], st.c, mk), key, ki, hi)

\* One turn of the two nested loops of tryRecover at manager hi of the key at
\* ki: the state after it, where the loops go next, and whether they returned.
ScanStep(st, ks, ms, mk, ki, hi) ==
    ScanList(st, ContextKey(ms, ks[ki]), ks[ki], mk, ki, hi)

RECURSIVE Scan(_, _, _, _, _, _)

ScanOn(step, ks, ms, mk) ==
    IF step.stop THEN step.st
    ELSE Scan(step.st, ks, ms, mk, step.ki, step.hi)

\* the two nested loops of tryRecover, from manager hi of the key at ki
Scan(st, ks, ms, mk, ki, hi) ==
    IF ki > Len(ks) THEN st
    ELSE ScanOn(ScanStep(st, ks, ms, mk, ki, hi), ks, ms, mk)

\* whether reflect.Value.Len and Index accept the value
HasElements(v) == v.kind \in {"Slice", "String"}

\* the elements Index(0) .. Index(Len()-1) of a slice or of a string
Elements(v) ==
    IF v.kind = "String" THEN [i \in 1..Len(v.data[1]) |-> <<v.data[1][i]>>]
    ELSE v.data

\* mutant of EvalFieldEach: the member is evaluated on the first element only
EvalFieldFirst(name, v) ==
    [kind |-> "Slice", data |-> SubSeq(Elements(v), 1, 1), ro |-> FALSE, member |-> name]

\* the list built by the ResultAsArray branch: for every element, in order,
\* state.evalField of the member name with the element as receiver
EvalFieldEach(name, v) ==
    [kind |-> "Slice", data |-> Elements(v), ro |-> FALSE, member |-> name]

\* mutant of Recovered: tryRecover returns nil whatever the failure slot holds
RecoveredWithoutFailure(st) ==
    [created |-> TRUE, panicked |-> FALSE, invoked |-> st.invoked,
     action |-> st.action, err |-> None, c |-> st.c]

\* tryRecover after the loops: the ResultAsArray branch, then return c.Error()
Recovered(st) ==
    [created |-> TRUE,
     panicked |-> st.action = ResultAsArray /\ ~HasElements(st.c.result),
     invoked |-> st.invoked, action |-> st.action, err |-> st.c.err,
     c |-> IF st.action = ResultAsArray /\ HasElements(st.c.result)
           THEN [st.c EXCEPT !.result = EvalFieldEach(st.c.name, st.c.result)]
           ELSE st.c]

\* Context.tryRecover
tryRecover(c, ks, ms, mk) ==
    Recovered(Scan([c |-> c, invoked |-> <<>>, action |-> NoReplace], ks, ms, mk, 1, 1))

\* state.hasErrorManagers
hasErrorManagers(ms) == Cardinality(DOMAIN ms) > 0

\* mutant of stateResult: the result slot is not looked at
stateResultOnAnyResult(source, err, name, receiver, result, ks, ms, mk) ==
    IF ~hasErrorManagers(ms)
    THEN [created |-> FALSE, panicked |-> FALSE, invoked |-> <<>>,
          action |-> NoReplace, err |-> err,
          c |-> newContext(source, err, name, receiver, result)]
    ELSE tryRecover(newContext(source, err, name, receiver, result), ks, ms, mk)

\* state.result
stateResult(source, err, name, receiver, result, ks, ms, mk) ==
    IF ~hasErrorManagers(ms) \/ (err = None /\ isValid(result))
    THEN [created |-> FALSE, panicked |-> FALSE, invoked |-> <<>>,
          action |-> NoReplace, err |-> err,
          c |-> newContext(source, err, name, receiver, result)]
    ELSE tryRecover(newContext(source, err, name, receiver, result), ks, ms, mk)

\* state.format after tryRecover: a failure left by the handlers is raised
Formatted(r) == [r EXCEPT !.panicked = @ \/ r.err # None]

\* state.format
stateFormat(source, iface, ks, ms, mk) ==
    IF hasErrorManagers(ms)
    THEN Formatted(tryRecover(newContext(source, None, "", iface, iface), ks, ms, mk))
    ELSE [created |-> FALSE, panicked |-> FALSE, invoked |-> <<>>,
          action |-> NoReplace, err |-> None,
          c |-> newContext(source, None, "", iface, iface)]

\* -------------------------------------------------------------- registry

\* mutant of Register: an empty list is stored instead of removing the group
RegisterKeepEmpty(ms, name, list) == MapSet(ms, name, list)

\* Template.ErrorManagers, the map update: delete on an empty list, else replace
Register(ms, name, list) ==
    IF Len(list) = 0 THEN MapDelete(ms, name) ELSE MapSet(ms, name, list)

\* -------------------------------------------------------------- inputs

\* the characters error texts and filters are made of
Chars == {1, 2}

RECURSIVE TextsOfLen(_)
TextsOfLen(n) ==
    IF n = 0 THEN {<<>>}
    ELSE {<<ch>> \o t : ch \in Chars, t \in TextsOfLen(n - 1)}

\* the error texts of failing contexts
Texts == UNION {TextsOfLen(n) : n \in 0..MaxTextLen}

Failures == {None} \cup {Some(t) : t \in Texts}

\* group names: "a", "ab" and "b"
KeyNames == {<<1>>, <<1, 2>>, <<2>>}

\* filters: a(?P<error>.*)  then  (.*)b  then  a(?P<0>.*)  then the empty pattern
fError == <<Lit(<<1>>), Grp("error", 0)>>
fTail == <<Grp("", 0), Lit(<<2>>)>>
fZero == <<Lit(<<1>>), Grp("0", 0)>>
fEmpty == <<>>

\* a manager without restriction whose handler declines
mDecline == NewErrorManager(Handler(NoReplace, "keep", "nil"), <<>>)

\* like contextManagers[0] when the function it calls fails: substitutes and
\* leaves the failure in place
mKeep == OnSources(NewErrorManager(Handler(ResultReplaced, "keep", "zero"), <<>>),
                   <<CallError>>)

\* allHandlers[0] of TestErrorHandling
mZero == OnMembers(OnActions(NewErrorManager(Handler(ResultReplaced, "clear", "zero"),
                                             <<>>), <<ZeroValue>>), <<"default">>)

\* callFailManager without its stack test: substitutes the matched error text
\* and clears the failure
mTrap == OnSources(NewErrorManager(Handler(ResultReplaced, "clear", "match"),
                                   <<fError>>), <<CallContext, CallError>>)

\* the "List as json" manager of ExampleTemplate_ErrorManagers
mJson == OnKinds(OnSources(NewErrorManager(Handler(ResultReplaced, "keep", "zero"),
                                           <<>>), <<PrintSource>>), <<"Slice">>)

\* the "Testing array" manager: the receiver, applied element by element
mArray == NewErrorManager(Handler(ResultAsArray, "clear", "receiver"), <<fTail>>)

\* the "Number as text" manager of ExampleTemplate_ErrorManagers_format, for
\* the kind of the texts
mText == OnKinds(OnSources(NewErrorManager(Handler(ResultReplaced, "clear", "zero"),
                                           <<>>), <<PrintSource>>), <<"String">>)

\* the "List as json" manager when json.MarshalIndent fails: the handler calls
\* context.SetError(err) and substitutes
mBroken == OnKinds(OnSources(NewErrorManager(Handler(ResultReplaced, "set", "zero"),
                                             <<>>), <<PrintSource>>),
                   <<"Array", "Slice">>)

\* a manager without restriction whose handler declines after it has replaced
\* the failure with context.SetError
mDeclineSet == NewErrorManager(Handler(NoReplace, "set", "nil"), <<>>)

\* a manager whose filter records the groups of the failure and whose handler
\* declines
mNote == NewErrorManager(Handler(NoReplace, "keep", "nil"), <<fError>>)

\* a manager without filters whose handler substitutes context.Match("error")
mReads == NewErrorManager(Handler(ResultReplaced, "clear", "match"), <<>>)

\* the manager lists registered under a name
ManagerLists == {<<mDecline, mKeep>>, <<mZero, mTrap>>, <<mJson, mArray>>}

\* receivers and result slots of the evaluation sites
TwoElements == SliceValue(<<<<1>>, <<2>>>>)
StructValue == Value("Struct", <<>>)
Receivers == {TwoElements, StructValue}
MemberNames == {"default", "other"}

\* what a field or call site hands to state.result: the receiver and the slot
Slots == {<<StructValue, nilv>>, <<TwoElements, NilInterface>>,
          <<TwoElements, StringValue(<<2>>)>>}

\* the values MissingAction given to Template.Option: the three actions, zero,
\* a combination and a value above Error
OptionActions == {0, Invalid, ZeroValue, Invalid + ZeroValue, Error, Error + 1}

\* -------------------------------------------------------------- call adapter

\* Most argument expressions of one call.
MaxArgs == 2

\* A callable as reflect sees it: the types of its parameters (the last one a
\* slice type when variadic), the types of its results, and whether the error
\* it returns, if it returns one, is non-nil.
Callable(name, params, variadic, outs, fails) ==
    [name |-> name, params |-> params, variadic |-> variadic, outs |-> outs,
     fails |-> fails]

\* typ.NumIn()
NumIn(fn) == Len(fn.params)

\* typ.In(k), k counting from 0
In(fn, k) == fn.params[k + 1]

\* argType.Elem() of a slice type
Elem(typ) == IF typ = "[]int" THEN "int" ELSE IF typ = "[]string" THEN "string" ELSE "none"

\* the failures of the adapter and of the callables
ArityError(name, want, got) == [kind |-> "arity", name |-> name, want |-> want, got |-> got]
ReturnedError(name) == [kind |-> "returned", name |-> name, want |-> 0, got |-> 0]

\* actualFunc.Call(args): one reflect.Value per declared result
Returns(fn) ==
    [j \in 1..Len(fn.outs) |->
        IF fn.outs[j] = "error"
        THEN [typ |-> "error", v |-> IF fn.fails THEN Some(ReturnedError(fn.name)) ELSE None]
        ELSE [typ |-> fn.outs[j], v |-> Some(j)]]

\* reflect.Value.Interface() of a returned value: nil for a nil error
InterfaceOf(r) == IF r.v = None THEN nilv ELSE Value(r.typ, r.v)

\* the empty string
EmptyString == StringValue(<<>>)

\* array := make([]interface{}, lenResult), filled from result[0 .. lenResult-1]
ResultArray(result, lenResult) == [i \in 1..lenResult |-> InterfaceOf(result[i])]

\* if len(array) == 1 { return array[0] }; return array
OneOrArray(array) == IF Len(array) = 1 THEN array[1] ELSE SliceValue(array)

\* mutant of convertResult: a last value of type error is returned with the rest
convertResultKeepsError(err, result) ==
    IF Len(result) = 0 THEN [value |-> EmptyString, err |-> None]
    ELSE [value |-> OneOrArray(ResultArray(result, Len(result))), err |-> None]

\* Context.convertResult: the value returned and the failure slot it leaves
convertResult(err, result) ==
    IF Len(result) = 0 THEN [value |-> EmptyString, err |-> None]
    ELSE IF result[Len(result)].typ = "error"
    THEN [value |-> OneOrArray(ResultArray(result, Len(result) - 1)),
          err |-> result[Len(result)].v]
    ELSE [value |-> OneOrArray(ResultArray(result, Len(result))), err |-> None]

\* c.ArgCount(): the argument expressions, plus one for a piped value
ArgCount(args, final) == Len(args) + (IF final = None THEN 0 ELSE 1)

\* mutant of ArgTypeAt: the slice type of the variadic parameter is kept
ArgTypeAtNoElem(fn, first, numIn, i, argType) ==
    IF i + first <= numIn THEN In(fn, i + first) ELSE argType

\* the type the i-th argument is evaluated against, i counting from 0, after
\*   if i+first <= numIn { argType = typ.In(i + first) }
\*   if typ.IsVariadic() && i+first == numIn { argType = argType.Elem() }
ArgTypeAt(fn, first, numIn, i, argType) ==
    IF fn.variadic /\ i + first = numIn THEN Elem(In(fn, i + first))
    ELSE IF i + first <= numIn THEN In(fn, i + first)
    ELSE argType

\* one turn of the argument loop: c.state.evalArg of an argument expression
\* against typ, which fails on an expression of another type, or c.Final()
ArgStep(args, final, i, typ, acc) ==
    IF i >= Len(args) THEN [acc EXCEPT !.passed = Append(@, final[1])]
    ELSE IF args[i + 1] = typ
    THEN [acc EXCEPT !.passed = Append(@, args[i + 1]),
                     !.evaluated = Append(@, <<i, typ>>)]
    ELSE [acc EXCEPT !.evaluated = Append(@, <<i, typ>>), !.typeError = Some(i)]

RECURSIVE EvalCallArgs(_, _, _, _, _, _, _, _)

EvalCallArgsNext(fn, args, final, first, numIn, i, typ, acc) ==
    EvalCallArgs(fn, args, final, first, numIn, i + 1, typ,
                 ArgStep(args, final, i, typ, acc))

\* for i := 0; i < c.ArgCount(); i++ { ... args = append(args, arg) }
EvalCallArgs(fn, args, final, first, numIn, i, argType, acc) ==
    IF i >= ArgCount(args, final) \/ acc.typeError # None THEN acc
    ELSE EvalCallArgsNext(fn, args, final, first, numIn, i,
                          ArgTypeAt(fn, first, numIn, i, argType), acc)

\* the type reflect wants for the k-th value passed, k counting from 1
ParamTypeAt(fn, k) ==
    IF fn.variadic /\ k >= NumIn(fn) THEN Elem(fn.params[NumIn(fn)])
    ELSE fn.params[k]

\* whether reflect.Value.Call accepts the values: enough of them, each of the
\* type of its parameter
CallAccepts(fn, passed) ==
    /\ IF fn.variadic THEN Len(passed) >= NumIn(fn) - 1 ELSE Len(passed) = NumIn(fn)
    /\ \A k \in 1..Len(passed) : passed[k] = ParamTypeAt(fn, k)

\* what callInternal leaves: the value it returns, the failure slot, whether
\* the callable ran and with what, the expressions evaluated and against which
\* type, and the panic raised if one was
Outcome(value, err, ran, passed, evaluated, panic) ==
    [value |-> value, err |-> err, ran |-> ran, passed |-> passed,
     evaluated |-> evaluated, panic |-> panic]

\* the callable ran: its results go through convertResult
Converted(r, passed, evaluated) ==
    Outcome(r.value, r.err, TRUE, passed, evaluated, "none")

\* return c.convertResult(actualFunc.Call(args))
CallAndConvert(fn, err, passed, evaluated) ==
    IF CallAccepts(fn, passed)
    THEN Converted(convertResult(err, Returns(fn)), passed, evaluated)
    ELSE Outcome(nilv, err, FALSE, passed, evaluated, "call")

\* after the argument loop
ArgsEvaluated(fn, err, acc) ==
    IF acc.typeError # None
    THEN Outcome(nilv, err, FALSE, acc.passed, acc.evaluated, "type")
    ELSE CallAndConvert(fn, err, acc.passed, acc.evaluated)

\* the context itself as first value when injectSelf
SelfArgs(injectSelf) == IF injectSelf THEN <<"context">> ELSE <<>>

\* mutant of ArityMismatch: a piped value is not counted
ArityMismatchIgnoresFinal(fn, args, final, first) ==
    ~fn.variadic /\ Len(args) + first # NumIn(fn)

\* else if c.ArgCount()+first != typ.NumIn()
ArityMismatch(fn, args, final, first) ==
    ~fn.variadic /\ ArgCount(args, final) + first # NumIn(fn)

\* mutant of SingleContext: the exemption also needs no argument to be supplied
SingleContextNoArgs(fn, injectSelf, args, final) ==
    injectSelf /\ NumIn(fn) = 1 /\ ~fn.variadic /\ ArgCount(args, final) = 0

\* if injectSelf && typ.NumIn() == 1 && !typ.IsVariadic()
SingleContext(fn, injectSelf, args, final) ==
    injectSelf /\ NumIn(fn) = 1 /\ ~fn.variadic

\* Context.callInternal(function, injectSelf) on a context whose failure slot
\* holds err, whose member is fn.name, with the argument expressions args and
\* the piped value final
callInternal(fn, err, args, final, injectSelf, first) ==
    IF SingleContext(fn, injectSelf, args, final)
    THEN CallAndConvert(fn, err, SelfArgs(injectSelf), <<>>)
    ELSE IF ArityMismatch(fn, args, final, first)
    THEN Outcome(nilv, Some(ArityError(fn.name, NumIn(fn) - first, ArgCount(args, final))),
                 FALSE, <<>>, <<>>, "none")
    ELSE ArgsEvaluated(fn, err,
             EvalCallArgs(fn, args, final, first,
                          IF fn.variadic THEN NumIn(fn) - 1 ELSE NumIn(fn), 0, "none",
                          [passed |-> SelfArgs(injectSelf), evaluated |-> <<>>,
                           typeError |-> None]))

\* the callables of the tests: func(), func() error, func() (int, string),
\* Tuple4(string) (int, string, bool, error), func(int) (string, error),
\* func(...int), func(string, ...int), and callables taking the context
Callables ==
    {Callable("noReturn", <<>>, FALSE, <<>>, FALSE),
     Callable("two", <<>>, FALSE, <<"int", "string">>, FALSE),
     Callable("variadic", <<"[]int">>, TRUE, <<>>, FALSE),
     Callable("prefixed", <<"string", "[]int">>, TRUE, <<"int">>, FALSE),
     Callable("withContext", <<"context">>, FALSE, <<"string">>, FALSE),
     Callable("contextVariadic", <<"context", "[]string">>, TRUE, <<"string">>, FALSE)}
    \cup {Callable("error", <<>>, FALSE, <<"error">>, fails) : fails \in BOOLEAN}
    \cup {Callable("Tuple4", <<"string">>, FALSE, <<"int", "string", "bool", "error">>, fails) :
             fails \in BOOLEAN}
    \cup {Callable("valueError", <<"int">>, FALSE, <<"string", "error">>, fails) :
             fails \in BOOLEAN}
    \cup {Callable("contextArg", <<"context", "int">>, FALSE, <<"string", "error">>, fails) :
             fails \in BOOLEAN}

RECURSIVE ArgsOfLen(_)
ArgsOfLen(n) ==
    IF n = 0 THEN {<<>>}
    ELSE {<<kind>> \o rest : kind \in {"int", "string"}, rest \in ArgsOfLen(n - 1)}

\* the argument expressions of a call, by the type of each
ArgLists == UNION {ArgsOfLen(n) : n \in 0..MaxArgs}

\* the piped value: none (missingVal), or a value of some type
Finals == {None, Some("int"), Some("string")}

\* the failure slot of the context before the call
EarlierFailures == {None, Some(ReturnedError("earlier"))}

NoOutcome == Outcome(nilv, None, FALSE, <<>>, <<>>, "none")
NoAdapterCall ==
    [fn |-> Callable("", <<>>, FALSE, <<>>, FALSE), err |-> None, args |-> <<>>,
     final |-> None, injectSelf |-> FALSE, done |-> FALSE, out |-> NoOutcome]

\* -------------------------------------------------------------- flow control

MaxSeq == 3

\* the values a deferred recover() can receive: nothing, a flowControl, an
\* error, an ExecError, or a value that is not an error
NoPanic == [type |-> "nil", v |-> 0]
FlowControl(fc) == [type |-> "flowControl", v |-> fc]
ErrorValue(id) == [type |-> "error", v |-> id]
ExecError(id) == [type |-> "ExecError", v |-> id]
OtherValue(id) == [type |-> "other", v |-> id]

\* mutant of flow: the return signal is absorbed like the other signals
flowAbsorbsReturn(rec) ==
    IF rec.type = "flowControl" THEN [result |-> rec.v, panic |-> NoPanic]
    ELSE [result |-> fcFlow, panic |-> rec]

\* mutant of flow: the break signal is taken for a continue
flowBreakAsContinue(rec) ==
    IF rec.type = "flowControl" /\ rec.v # fcReturn
    THEN [result |-> fcContinue, panic |-> NoPanic]
    ELSE [result |-> fcFlow, panic |-> rec]

\* mutant of flow: the continue signal is taken for a break
flowContinueAsBreak(rec) ==
    IF rec.type = "flowControl" /\ rec.v # fcReturn
    THEN [result |-> fcBreak, panic |-> NoPanic]
    ELSE [result |-> fcFlow, panic |-> rec]

\* flow(action) once action has ended with rec for recover(): the result
\* returned and the value raised again
flow(rec) ==
    IF rec.type = "nil" THEN [result |-> fcFlow, panic |-> NoPanic]
    ELSE IF rec.type = "flowControl"
    THEN IF rec.v = fcReturn THEN [result |-> fcFlow, panic |-> rec]
         ELSE [result |-> rec.v, panic |-> NoPanic]
    ELSE [result |-> fcFlow, panic |-> rec]

\* convertResult(result []interface{}) of flow_control.go: "", the only value,
\* or the list
flowConvertResult(result) ==
    IF Len(result) = 0 THEN [kind |-> "string", list |-> <<>>]
    ELSE IF Len(result) = 1 THEN [kind |-> "value", list |-> result]
    ELSE [kind |-> "list", list |-> result]

RECURSIVE PrintList(_, _)
\* fmt's rendering of a list from its i-th element on: [a b c]
PrintList(list, i) ==
    IF i > Len(list) THEN <<"]">>
    ELSE (IF i = 1 THEN <<"[">> ELSE <<" ">>) \o <<Sprint(list[i])>> \o PrintList(list, i + 1)

\* state.printValue of the value convertResult gave
printValue(converted) ==
    IF converted.kind = "string" THEN <<>>
    ELSE IF converted.kind = "value" THEN <<Sprint(converted.list[1])>>
    ELSE PrintList(converted.list, 1)

\* mutant of flowReturnValues: the values are appended to the output
flowReturnValuesAppends(out, args, isBuffer) ==
    [out |-> out \o printValue(flowConvertResult(args)), rec |-> FlowControl(fcReturn)]

\* flowReturnValues(context): the writer after it and the value it panics with
flowReturnValues(out, args, isBuffer) ==
    [out |-> IF Len(args) > 0
             THEN (IF isBuffer THEN <<>> ELSE out) \o printValue(flowConvertResult(args))
             ELSE out,
     rec |-> FlowControl(fcReturn)]

\* the function of the template called by the statement: break, continue and
\* return of the FlowControl option, a function that panics with an error and
\* one that panics with a value that is no error
Statement(stmt, out, args, isBuffer) ==
    IF stmt = "return" THEN flowReturnValues(out, args, isBuffer)
    ELSE [out |-> out,
          rec |-> CASE stmt = "break" -> FlowControl(fcBreak)
                    [] stmt = "continue" -> FlowControl(fcContinue)
                    [] stmt = "fail" -> ErrorValue(1)
                    [] OTHER -> OtherValue(2)]

\* fmt.Errorf("Panic %v", err): texts are numbered, and the text made of
\* "Panic " and of the value numbered v is numbered 10 + v
Panicf(v) == 10 + v

\* asError(rec): an error is returned as it is, nil as nil, any other value as
\* a new error
asError(rec) == IF rec.type = "other" THEN ErrorValue(Panicf(rec.v)) ELSE rec

\* mutant of errorHandled: a flow-control signal is not told from a failure
errorHandledTrapOnly(err, stack) ==
    Len(stack) > 1 /\ stack[Len(stack) - 1] = "trap"

\* state.errorHandled(err), with s.stack
errorHandled(err, stack) ==
    \/ err.type = "flowControl"
    \/ Len(stack) > 1 /\ stack[Len(stack) - 1] = "trap"

\* what state.result made of the failure of a call: the failure left, the
\* substituted result, the handlers invoked and the failure they were given
ResultGiven(err, r) ==
    [err |-> IF r.err = None THEN NoPanic ELSE err, value |-> r.c.result,
     invoked |-> r.invoked, given |-> IF r.created THEN <<err>> ELSE <<>>]

\* the function a call site gives to state.recover: a failure the state
\* declares handled is returned as it is, any other goes to state.result
RecoverCall(err, name, stack, ks, ms, mk) ==
    IF err.type = "nil" \/ errorHandled(err, stack)
    THEN [err |-> err, value |-> nilv, invoked |-> <<>>, given |-> <<>>]
    ELSE ResultGiven(err, stateResult(CallError, Some(<<err.v>>), name, nilv, nilv,
                                      ks, ms, mk))

\* state.errorf(text): raises the execution error of the template with the text
errorf(text) == ExecError(text)

\* mutant of recovered: every failure is converted, the signals included
recoveredConvertsAll(err) ==
    IF err.type = "nil" THEN NoPanic ELSE errorf(err.v)

\* state.recovered after err = f(err): the value raised again, none when the
\* failure was recovered
recovered(err) ==
    IF err.type = "nil" THEN NoPanic
    ELSE IF err.type \in {"ExecError", "flowControl"} THEN err
    ELSE errorf(err.v)

\* the functions given to state.recover: nil, one that returns the failure it
\* is given, one that recovers it and returns nil
RecoverFuns == {"nil", "same", "none"}

\* if f != nil { err = f(err) }
RecoverFun(f, err) == IF f = "none" THEN NoPanic ELSE err

\* state.recover(f) when the deferred recover() returns rec
stateRecover(rec, f) == recovered(RecoverFun(f, asError(rec)))

\* the text printed for the result of a call that was recovered
PrintResult(value) == IF value.kind = "Invalid" THEN <<>> ELSE <<"Zero">>

\* the call of the statement seen from the body of the loop: the output, the
\* value raised, the handlers invoked and the failures they were given
CallEnded(raw, r) ==
    [out |-> IF recovered(r.err) = NoPanic THEN raw.out \o PrintResult(r.value) ELSE raw.out,
     rec |-> recovered(r.err), invoked |-> r.invoked, given |-> r.given]

\* evaluation of the call of the statement, under the registry of the template
CallStatement(e, out, ks, ms, mk) ==
    CallEnded(Statement(e.stmt, out, e.args, e.isBuffer),
              RecoverCall(asError(Statement(e.stmt, out, e.args, e.isBuffer).rec),
                          e.stmt, <<e.stmt>>, ks, ms, mk))

\* the template of Test_flow_control, element i of seq: {{ if $i }}-{{ end }}
BodyHead(e, i) == IF i > 1 THEN e.out \o <<"-">> ELSE e.out

\* {{ $value }}, reached when the statement raised nothing
BodyTail(r, i) ==
    IF r.rec = NoPanic THEN [r EXCEPT !.out = @ \o <<Sprint(i)>>] ELSE r

\* one execution of the body of the range, for the element i
Body(e, i, ks, ms, mk) ==
    IF i \in e.trigger THEN BodyTail(CallStatement(e, BodyHead(e, i), ks, ms, mk), i)
    ELSE [out |-> BodyHead(e, i) \o <<Sprint(i)>>, rec |-> NoPanic,
          invoked |-> <<>>, given |-> <<>>]

\* the range loop after flow() returned for the element i: a break ends the
\* loop, a value raised again leaves the template, as a return at its boundary
\* or as a failure, anything else goes on with the next element
Ranged(e, i, r, f) ==
    [e EXCEPT !.out = r.out,
              !.iterated = Append(@, i),
              !.rec = r.rec,
              !.result = f.result,
              !.before = IF i \in e.trigger THEN BodyHead(e, i) ELSE @,
              !.invoked = @ \o r.invoked,
              !.given = @ \o r.given,
              !.escaped = f.panic,
              !.pos = i + 1,
              !.phase = IF f.panic # NoPanic
                        THEN (IF f.panic = FlowControl(fcReturn) THEN "done" ELSE "failed")
                        ELSE IF f.result = fcBreak THEN "after"
                        ELSE "loop"]

\* flow(func() { body }) for the element i, and the loop after it
walkRangeStep(e, i, body) == Ranged(e, i, body, flow(body.rec))

\* the condition of the statement holds on these elements
Triggers == SUBSET (1..MaxSeq)

\* the arguments given to return
ReturnArgs == {<<>>, <<1>>, <<1, 2>>}

\* the statement of the template and its arguments
Statements ==
    {[stmt |-> s, args |-> <<>>] : s \in {"break", "continue", "fail", "panic"}}
    \cup {[stmt |-> "return", args |-> a] : a \in ReturnArgs}

\* a registry with one manager without restriction that always substitutes
CatchAll == NewErrorManager(Handler(ResultReplaced, "clear", "zero"), <<>>)

NoExec ==
    [stmt |-> "", args |-> <<>>, trigger |-> {}, isBuffer |-> TRUE, prior |-> <<>>,
     phase |-> "none",
     pos |-> 0, out |-> <<>>, iterated |-> <<>>, rec |-> NoPanic, result |-> fcFlow,
     before |-> <<>>, invoked |-> <<>>, given |-> <<>>, escaped |-> NoPanic,
     stack |-> <<>>, frame |-> <<>>, under |-> <<>>, renders |-> <<>>]

\* -------------------------------------------------------------- actions

NoCall == [op |-> "none", source |-> 0, err |-> None, name |-> "",
           receiver |-> nilv, result |-> nilv]
NoReturn == [created |-> FALSE, panicked |-> FALSE, action |-> NoReplace, err |-> None]
NoManager == NewErrorManager(Handler(NoReplace, "keep", "nil"), <<>>)
NoProbe == [done |-> FALSE, ok |-> FALSE, panic |-> FALSE]

Init ==
    /\ managers = EmptyMap
    /\ keys = <<>>
    /\ missingKey = mapInvalid
    /\ ctx = newContext(0, None, "", nilv, nilv)
    /\ orig = NoCall
    /\ invoked = <<>>
    /\ ret = NoReturn
    /\ em = NoManager
    /\ probe = NoProbe
    /\ removed = None
    /\ call = NoAdapterCall
    /\ exec = NoExec

\* Template.ErrorManagers(name, managers...)
ErrorManagers(name, list) ==
    /\ orig.op = "none"
    /\ managers' = Register(managers, name, list)
    /\ \E order \in MapOrders(DOMAIN managers') : keys' = SortStrings(order)
    /\ removed' = IF Len(list) = 0
                  THEN Some([name |-> name, list |-> ContextKey(managers, name)])
                  ELSE None
    /\ UNCHANGED <<missingKey, ctx, orig, invoked, ret, em, probe, call, exec>>

\* Template.Option(opt) with a MissingAction
Option(opt) ==
    /\ orig.op = "none"
    /\ missingKey' = ConvertToNative(opt)
    /\ UNCHANGED <<managers, keys, ctx, orig, invoked, ret, em, probe, removed, call, exec>>

\* the call made and what it left: the context, the handlers run, the return
Returned(made, r) ==
    /\ orig' = made
    /\ ctx' = r.c
    /\ invoked' = r.invoked
    /\ ret' = [created |-> r.created, panicked |-> r.panicked,
               action |-> r.action, err |-> r.err]

\* state.result at a field or call site
Result(source, err, name, receiver, result) ==
    /\ orig.op = "none"
    /\ Returned([op |-> "result", source |-> source, err |-> err, name |-> name,
                 receiver |-> receiver, result |-> result],
                stateResult(source, err, name, receiver, result,
                            keys, managers, missingKey))
    /\ UNCHANGED <<managers, keys, missingKey, em, probe, removed, call, exec>>

\* state.format of a value about to be written
Format(iface) ==
    /\ orig.op = "none"
    /\ Returned([op |-> "format", source |-> PrintSource, err |-> None, name |-> "",
                 receiver |-> iface, result |-> iface],
                stateFormat(PrintSource, iface, keys, managers, missingKey))
    /\ UNCHANGED <<managers, keys, missingKey, em, probe, removed, call, exec>>

\* the executor takes the outcome of the call; its Context is dropped
Discard ==
    /\ orig.op # "none"
    /\ ctx' = newContext(0, None, "", nilv, nilv)
    /\ orig' = NoCall
    /\ invoked' = <<>>
    /\ ret' = NoReturn
    /\ UNCHANGED <<managers, keys, missingKey, em, probe, removed, call, exec>>

Next ==
    \/ \E name \in KeyNames, list \in ManagerLists \cup {<<>>} : ErrorManagers(name, list)
    \/ \E opt \in OptionActions : Option(opt)
    \/ \E source \in {FieldError, CallError}, err \in Failures,
          name \in MemberNames, slot \in Slots :
          Result(source, err, name, slot[1], slot[2])
    \/ \E iface \in Receivers \cup {StringValue(<<2>>)} : Format(iface)
    \/ Discard

Spec == Init /\ [][Next]_vars

\* -------------------------------------------------------------- CanManage alone

\* the arguments given to the builder methods
BuiltSources == {<<>>, <<PrintSource>>, <<CallContext, CallError>>}
BuiltModes == {<<>>, <<ZeroValue>>}
BuiltMembers == {<<>>, <<"private", "default">>}
BuiltKinds == {<<>>, <<"Struct", "Slice">>}
BuiltFilters == {<<>>, <<fError>>, <<fEmpty>>, <<fZero>>, <<fTail, fError>>,
                 <<fError, fTail>>, <<fTail, fZero>>}

\* the managers NewErrorManager(...).OnSources(...).OnActions(...)
\* .OnMembers(...).OnKinds(...) builds from them
Built ==
    {OnKinds(OnMembers(OnActions(OnSources(
         NewErrorManager(Handler(ResultReplaced, "clear", "match"), f), s), a), mb), k) :
        f \in BuiltFilters, s \in BuiltSources, a \in BuiltModes,
        mb \in BuiltMembers, k \in BuiltKinds}

\* the contexts CanManage is asked about
Asked ==
    {newContext(source, err, name, receiver, nilv) :
        source \in {FieldError, PrintSource}, err \in Failures,
        name \in MemberNames, receiver \in Receivers}

InitCanManage ==
    /\ managers = EmptyMap
    /\ keys = <<>>
    /\ missingKey \in {mapInvalid, mapZeroValue}
    /\ ctx \in Asked
    /\ orig = NoCall
    /\ invoked = <<>>
    /\ ret = NoReturn
    /\ em \in Built
    /\ probe = NoProbe
    /\ removed = None
    /\ call = NoAdapterCall
    /\ exec = NoExec

\* the answer of CanManage and the context it leaves
Answered(r) ==
    /\ probe' = [done |-> TRUE, ok |-> r.ok, panic |-> r.panic]
    /\ ctx' = r.c

\* em.CanManage(ctx)
AskCanManage ==
    /\ ~probe.done
    /\ Answered(CanManage(em, ctx, missingKey))
    /\ UNCHANGED <<managers, keys, missingKey, orig, invoked, ret, em, removed, call, exec>>

SpecCanManage == InitCanManage /\ [][AskCanManage]_vars

\* -------------------------------------------------------------- recovery order

\* the manager whose handler was the i-th one the last call ran
InvokedManager(i) == managers[invoked[i][1]][invoked[i][2]]

\* slot a comes before slot b in ascending key order, then registration order
Before(a, b) == LexLess(a[1], b[1]) \/ (a[1] = b[1] /\ a[2] < b[2])

\* the handlers ran in that order, none of them twice
InOrder == \A i, j \in 1..Len(invoked) : i < j => Before(invoked[i], invoked[j])

\* the i-th handler that ran returned an action other than NoReplace
Substitutes(i) == InvokedManager(i).fun.act # NoReplace

RECURSIVE FailureAfter(_)
\* the failure slot when the i-th handler that ran returned
FailureAfter(i) ==
    IF i = 0 THEN orig.err
    ELSE IF InvokedManager(i).fun.errop = "clear" THEN None
    ELSE IF InvokedManager(i).fun.errop = "set" THEN HandlerFailure
    ELSE FailureAfter(i - 1)

\* the number of handlers that ran before slot is reached
RanBefore(slot) == Cardinality({i \in 1..Len(invoked) : Before(invoked[i], slot)})

\* the loops returned at the i-th handler that ran
StoppedAt(i) == Substitutes(i) /\ FailureAfter(i) = None

\* the action of the last handler that substituted, NoReplace when none did
LastAction ==
    IF \E i \in 1..Len(invoked) : Substitutes(i)
    THEN InvokedManager(SetMax({i \in 1..Len(invoked) : Substitutes(i)})).fun.act
    ELSE NoReplace

\* slot holds a manager that can manage the context as it is when reached
ManagesWhenReached(slot) ==
    CanManage(managers[slot[1]][slot[2]],
              [ctx EXCEPT !.err = FailureAfter(RanBefore(slot))], missingKey).ok

\* every registered manager, as <<key, index>>
RegisteredSlots ==
    UNION {{<<k, h>> : h \in 1..Len(managers[k])} : k \in DOMAIN managers}

\* C1 as stated: in one tryRecover call the handlers run in ascending
\* order of group name and then registration order, none more than once, and
\* once a handler has returned an action other than NoReplace no later handler
\* runs, whatever the failure slot holds.
C1_StopsAtFirstSubstitution ==
    orig.op # "none" =>
        /\ InOrder
        /\ \A i, j \in 1..Len(invoked) : i < j => ~Substitutes(i)

\* C1 amended: in one tryRecover call the handlers run in ascending order
\* of group name and then registration order, none more than once; a manager's
\* handler runs exactly when the manager can manage the context and no earlier
\* handler has both substituted and left the failure slot nil; the action of the
\* call is that of the last handler that substituted.
C1_StopsOnceFailureCleared ==
    (orig.op # "none" /\ ret.created) =>
        /\ InOrder
        /\ \A i, j \in 1..Len(invoked) : i < j => ~StoppedAt(i)
        /\ \A slot \in RegisteredSlots :
              (\E i \in 1..Len(invoked) : invoked[i] = slot)
              <=> /\ ManagesWhenReached(slot)
                  /\ ~\E i \in 1..Len(invoked) :
                        Before(invoked[i], slot) /\ StoppedAt(i)
        /\ ret.action = LastAction

\* a call in which a handler substituted and left the failure in place, a later
\* handler of another group then substituted and cleared it, and a manager
\* registered after that one, able to manage the context, was not tried
C1_Witness ==
    /\ orig.op = "result"
    /\ Len(invoked) >= 3
    /\ \E i \in 1..(Len(invoked) - 1) :
          Substitutes(i) /\ invoked[i][1] # invoked[Len(invoked)][1]
    /\ StoppedAt(Len(invoked))
    /\ \E slot \in RegisteredSlots :
          Before(invoked[Len(invoked)], slot) /\ ManagesWhenReached(slot)

\* C2: with no manager group registered, a call to state.result or
\* state.format, and tryRecover itself on the same context, runs no handler,
\* leaves the result slot as it was and returns the original failure, nil when
\* there was none.
C2_NoManagersNoOp ==
    (orig.op # "none" /\ DOMAIN managers = {}) =>
        /\ invoked = <<>> /\ ctx.result = orig.result /\ ret.err = orig.err
        /\ ret.action = NoReplace
        /\ LET r == tryRecover(newContext(orig.source, orig.err, orig.name,
                                          orig.receiver, orig.result),
                               keys, managers, missingKey)
           IN r.invoked = <<>> /\ r.c.result = orig.result /\ r.err = orig.err

\* a failing call with an unusable result made while the registry is empty
C2_Witness ==
    /\ orig.op = "result" /\ DOMAIN managers = {}
    /\ orig.err # None /\ ~isValid(orig.result)
    /\ ret.err = orig.err

\* C3: the key list is strictly ascending in lexicographic order, holds
\* exactly the names that map to a manager list, and no name maps to an empty
\* list.
C3_KeysSortedExact ==
    /\ \A i \in 1..(Len(keys) - 1) : LexLess(keys[i], keys[i + 1])
    /\ {keys[i] : i \in 1..Len(keys)} = DOMAIN managers
    /\ \A k \in DOMAIN managers : Len(managers[k]) > 0

\* two groups are left, in order, after a registered group was removed
C3_Witness ==
    /\ Len(keys) = 2 /\ LexLess(keys[1], keys[2])
    /\ removed # None /\ Len(removed[1].list) > 0

\* -------------------------------------------------------------- registry claims

\* the arguments of the last call as a fresh Context
OrigContext ==
    newContext(orig.source, orig.err, orig.name, orig.receiver, orig.result)

\* every handler run by the outcome r belongs to the group name, and the
\* failure was recovered
RecoveredIn(r, name) ==
    /\ r.err = None
    /\ r.invoked # <<>>
    /\ \A i \in 1..Len(r.invoked) : r.invoked[i][1] = name

\* no registered manager both can manage the last call's context and substitutes
OthersDecline ==
    \A slot \in RegisteredSlots :
        \/ ~CanManage(managers[slot[1]][slot[2]], OrigContext, missingKey).ok
        \/ managers[slot[1]][slot[2]].fun.act = NoReplace

\* the failure of the last call was recovered, by the group g alone, while g
\* was still registered
OnlyRecoveredBy(g) ==
    /\ Len(g.list) > 0
    /\ OthersDecline
    /\ RecoveredIn(stateResult(orig.source, orig.err, orig.name, orig.receiver,
                               orig.result, InsertSorted(keys, g.name),
                               MapSet(managers, g.name, g.list), missingKey),
                   g.name)

\* a failure that only the removed group recovered surfaces with its original
\* error and leaves the result slot alone
Surfaces ==
    (orig.op = "result" /\ orig.err # None /\ removed # None
        /\ OnlyRecoveredBy(removed[1]))
    => (ret.err = orig.err /\ ret.action = NoReplace /\ ctx.result = orig.result)

\* ErrorManagers(name) with no managers takes name, and nothing else, out of
\* the map and out of the key list
RemovesExactly(name) ==
    /\ DOMAIN managers' = (DOMAIN managers) \ {name}
    /\ \A k \in DOMAIN managers' : managers'[k] = managers[k]
    /\ keys' = SelectSeq(keys, LAMBDA k : k # name)
    /\ name \notin DOMAIN managers => (managers' = managers /\ keys' = keys)

\* C4: ErrorManagers(name) with no managers removes exactly the group
\* registered under name, changes nothing when there is none, and leaves the
\* other groups' lists and the relative order of the other keys as they were;
\* a failure that only that group recovered then surfaces with its original
\* error.
C4_RemovesExactlyThatGroup ==
    /\ [][\A name \in KeyNames : ErrorManagers(name, <<>>) => RemovesExactly(name)]_vars
    /\ []Surfaces

\* a registered group was removed while another one stayed, and a failure that
\* the removed group alone recovered has come back with its original error
C4_Witness ==
    /\ orig.op = "result" /\ orig.err # None
    /\ removed # None /\ keys # <<>>
    /\ OnlyRecoveredBy(removed[1])
    /\ ret.err = orig.err

\* the key list is the same whatever order the map yields its keys in
KeysCanonical(ms, ks) == \A order \in MapOrders(DOMAIN ms) : SortStrings(order) = ks

\* after ErrorManagers(name, list) the map holds list under name, or nothing
\* when list is empty, and what it held under the other names
LastCallWins(name, list) ==
    /\ \A k \in KeyNames \ {name} :
          /\ k \in DOMAIN managers' <=> k \in DOMAIN managers
          /\ k \in DOMAIN managers => managers'[k] = managers[k]
    /\ name \in DOMAIN managers' <=> Len(list) > 0
    /\ Len(list) > 0 => managers'[name] = list

\* the call commutes with a call for any other name, and repeating it or
\* making it after another call for the same name gives the same map
Commutes(name, list) ==
    /\ \A other \in KeyNames \ {name}, l \in ManagerLists \cup {<<>>} :
          Register(Register(managers, name, list), other, l)
              = Register(Register(managers, other, l), name, list)
    /\ \A l \in ManagerLists \cup {<<>>} :
          Register(Register(managers, name, l), name, list) = managers'
    /\ Register(managers', name, list) = managers'

\* the outcome of the last call is the one every key order of the map gives
SameOutcome ==
    orig.op = "result" =>
        \A order \in MapOrders(DOMAIN managers) :
            LET r == stateResult(orig.source, orig.err, orig.name, orig.receiver,
                                 orig.result, SortStrings(order), managers, missingKey)
            IN r.invoked = invoked /\ r.err = ret.err /\ r.action = ret.action
               /\ r.c = ctx

\* C5: the registry depends only on the last ErrorManagers call made
\* for each name: calls for distinct names commute, a later call for a name
\* replaces the earlier list, a repeated call changes nothing, the key list does
\* not depend on the order the names were registered in, and so neither do the
\* handlers tryRecover runs nor its outcome.
C5_LastCallPerName ==
    /\ [][\A name \in KeyNames, list \in ManagerLists \cup {<<>>} :
            ErrorManagers(name, list) =>
                /\ LastCallWins(name, list)
                /\ Commutes(name, list)
                /\ KeysCanonical(managers', keys')]_vars
    /\ [](KeysCanonical(managers, keys) /\ SameOutcome)

\* three groups are registered and a failing call was recovered by a handler
\* of the last one
C5_Witness ==
    /\ orig.op = "result" /\ orig.err # None /\ ret.err = None
    /\ Len(keys) = 3
    /\ invoked # <<>> /\ invoked[Len(invoked)][1] = keys[3]

\* C7 as stated: a manager with a non-zero mode mask, such as the one
\* built with OnActions(ZeroValue) and OnMembers("default"), has its handler run
\* only when the template's missing-key mode is one of the modes of its mask.
C7_ModeMaskRestricts ==
    orig.op = "result" =>
        \A i \in 1..Len(invoked) :
            InvokedManager(i).mode # 0 =>
                BitAnd(InvokedManager(i).mode, MissingMode(missingKey)) # 0

\* -------------------------------------------------------------- CanManage claims

\* C6 as stated: a manager with a non-zero source mask manages a context
\* only if the context's source has a bit in common with the mask, and
\* IsSet(value) on a source is true only when a bit of value is set in it.
C6_SourceMaskRestricts ==
    probe.done =>
        /\ (probe.ok /\ em.source # 0) => BitAnd(em.source, ctx.source) # 0
        /\ (em.source # 0 /\ SourceIsSet(em.source, ctx.source)) =>
              BitAnd(em.source, ctx.source) # 0

\* the context CanManage was asked about, before it recorded any group
AskedContext == [ctx EXCEPT !.matches = EmptyMap]

\* C8: a manager with a non-empty member allow-list manages a context
\* only if the member name of the context is equal to one of the listed names;
\* with an empty list the answer is the same whatever the member name is.
C8_MemberAllowList ==
    probe.done =>
        /\ (probe.ok /\ Len(em.members) > 0) =>
              \E i \in 1..Len(em.members) : em.members[i] = ctx.name
        /\ Len(em.members) = 0 =>
              \A name \in MemberNames \cup {"", "Default", "defaults"} :
                  CanManage(em, [AskedContext EXCEPT !.name = name], missingKey).ok
                      = probe.ok

\* a manager with an allow-list has accepted a context whose member is listed,
\* second in the list
C8_Witness ==
    /\ probe.done /\ probe.ok
    /\ Len(em.members) = 2 /\ em.members[2] = ctx.name /\ em.members[1] # ctx.name

\* the filter matches somewhere in text
MatchesSomewhere(re, text) == \E p \in 1..(Len(text) + 1) : MatchFrom(re, text, p).ok

\* C9: once the source, mode, member and kind checks have passed, a
\* manager without filters manages the context, and a manager with filters
\* manages it exactly when there is a failure whose text one of the filters
\* matches.
C9_FiltersDecide ==
    (probe.done /\ MasksPass(em, ctx, missingKey) /\ MembersPass(em, ctx)
        /\ KindsPass(em, ctx))
    => probe.ok = \/ Len(em.filters) = 0
                  \/ /\ ctx.err # None
                     /\ \E i \in 1..Len(em.filters) :
                           MatchesSomewhere(em.filters[i], ErrorText(ctx))

\* a manager was accepted whose first filter does not match the failure text
\* and whose second one does
C9_Witness ==
    /\ probe.done /\ probe.ok /\ ctx.err # None
    /\ Len(em.filters) = 2
    /\ ~MatchesSomewhere(em.filters[1], ErrorText(ctx))
    /\ MatchesSomewhere(em.filters[2], ErrorText(ctx))

\* the first filter of em, in declaration order, that matches the failure text
FirstMatching ==
    em.filters[SetMin({i \in 1..Len(em.filters) :
                          MatchesSomewhere(em.filters[i], ErrorText(ctx))})]

\* the handler reads the submatches of re under "0", the decimal positions and
\* the group names, and nothing else
ReadsGroupsOf(re, sub) ==
    /\ Match(ctx, "0") = sub[1]
    /\ \A g \in 1..(Len(sub) - 1) :
          /\ Match(ctx, Sprint(g)) = sub[g + 1]
          /\ SubexpNames(re)[g + 1] # "" => Match(ctx, SubexpNames(re)[g + 1]) = sub[g + 1]
    /\ DOMAIN ctx.matches =
          {Sprint(g) : g \in 0..(Len(sub) - 1)}
              \cup ({SubexpNames(re)[g + 1] : g \in 1..(Len(sub) - 1)} \ {""})

\* C10 as stated: when a filter of the manager matches the failure text
\* the handler reads the entire matched text under "0", each capture group under
\* its decimal position and each named group under its name, the groups being
\* those of the first filter that matches; when no filter matches nothing is
\* recorded.
C10_MatchGroups ==
    /\ (probe.done /\ probe.ok /\ Len(em.filters) > 0) =>
          ReadsGroupsOf(FirstMatching, FindStringSubmatch(FirstMatching, ErrorText(ctx)))
    /\ (probe.done /\ ~probe.ok) => ctx.matches = EmptyMap

\* -------------------------------------------------------------- call adapter alone

InitCall ==
    /\ managers = EmptyMap
    /\ keys = <<>>
    /\ missingKey = mapInvalid
    /\ ctx = newContext(0, None, "", nilv, nilv)
    /\ orig = NoCall
    /\ invoked = <<>>
    /\ ret = NoReturn
    /\ em = NoManager
    /\ probe = NoProbe
    /\ removed = None
    /\ call \in {[NoAdapterCall EXCEPT !.fn = fn, !.err = err, !.args = args, !.final = final] :
                    fn \in Callables, err \in EarlierFailures, args \in ArgLists,
                    final \in Finals}
    /\ exec = NoExec

\* the outcome of the call is recorded
Called(injectSelf, out) ==
    call' = [call EXCEPT !.injectSelf = injectSelf, !.done = TRUE, !.out = out]

\* context.Call(fn)
ContextCall ==
    /\ ~call.done
    /\ Called(FALSE, callInternal(call.fn, call.err, call.args, call.final, FALSE, 0))
    /\ UNCHANGED <<managers, keys, missingKey, ctx, orig, invoked, ret, em, probe, removed, exec>>

\* context.callInternal(nil, true), made by the manager of the functions whose
\* first parameter is the context
CallWithContext ==
    /\ ~call.done
    /\ NumIn(call.fn) > 0 /\ In(call.fn, 0) = "context"
    /\ Called(TRUE, callInternal(call.fn, call.err, call.args, call.final, TRUE, 1))
    /\ UNCHANGED <<managers, keys, missingKey, ctx, orig, invoked, ret, em, probe, removed, exec>>

NextCall == ContextCall \/ CallWithContext

SpecCall == InitCall /\ [][NextCall]_vars

\* -------------------------------------------------------------- call adapter claims

\* the error the callable of the call returns
ErrorReturned == IF call.fn.fails THEN Some(ReturnedError(call.fn.name)) ELSE None

\* the last declared result of the callable is of type error
LastIsError == Len(call.fn.outs) > 0 /\ call.fn.outs[Len(call.fn.outs)] = "error"

\* the declared results other than a last error
Remaining == IF LastIsError THEN Len(call.fn.outs) - 1 ELSE Len(call.fn.outs)

\* C11 as stated: the return of a callable whose only result is of type
\* error is normalised to the empty string, the failure slot holding that error
\* when it is non-nil and nil when it is nil.
C11_OnlyErrorYieldsEmptyString ==
    (call.done /\ call.out.ran /\ call.fn.outs = <<"error">>) =>
        /\ call.out.value = EmptyString
        /\ call.out.err = ErrorReturned

\* C12: a callable without result yields the empty string and a nil
\* failure; a last result of type error becomes the failure, nil included, and
\* without one the failure is cleared; one remaining result is returned as
\* itself, two or more as the list of all of them in order.
C12_ReturnNormalisation ==
    (call.done /\ call.out.ran) =>
        /\ Len(call.fn.outs) = 0 => (call.out.value = EmptyString /\ call.out.err = None)
        /\ LastIsError => call.out.err = ErrorReturned
        /\ ~LastIsError => call.out.err = None
        /\ Remaining = 1 => call.out.value = Value(call.fn.outs[1], Some(1))
        /\ Remaining >= 2 =>
              /\ call.out.value.kind = "Slice"
              /\ Len(call.out.value.data) = Remaining
              /\ \A j \in 1..Remaining :
                    call.out.value.data[j] = Value(call.fn.outs[j], Some(j))

\* Tuple4 has run on a context that held an earlier failure and returned three
\* values and a non-nil error
C12_Witness ==
    /\ call.done /\ call.out.ran /\ call.err # None
    /\ Len(call.fn.outs) = 4 /\ call.fn.fails
    /\ Len(call.out.value.data) = 3
    /\ call.out.err = Some(ReturnedError("Tuple4"))

\* the counts of the arity test: what is supplied and what the callable wants
Got == Len(call.args) + (IF call.final = None THEN 0 ELSE 1)
Want == Len(call.fn.params) - (IF call.injectSelf THEN 1 ELSE 0)

\* the call ended with the adapter's arity error in the failure slot
ArityReported == call.out.err # None /\ call.out.err[1].kind = "arity"

\* C13: for a non-variadic callable outside the single context
\* parameter exemption, the arity error is reported exactly when the number of
\* argument expressions, plus one for a piped value, differs from the number of
\* parameters, less one when the context is injected; when it is reported the
\* callable has not run, no argument was evaluated, nil is returned and the
\* failure names the member, the wanted and the supplied count.
C13_ArityError ==
    (call.done /\ ~call.fn.variadic
        /\ ~(call.injectSelf /\ Len(call.fn.params) = 1)) =>
        /\ ArityReported <=> Got # Want
        /\ ArityReported =>
              /\ ~call.out.ran /\ call.out.evaluated = <<>> /\ call.out.value = nilv
              /\ call.out.panic = "none"
              /\ call.out.err = Some(ArityError(call.fn.name, Want, Got))

\* a callable taking the context and an int was called with the context
\* injected and only a piped value too many
C13_Witness ==
    /\ call.done /\ call.injectSelf /\ ArityReported
    /\ Len(call.args) = 1 /\ call.final # None
    /\ call.out.err = Some(ArityError("contextArg", 1, 2))

\* the type the i-th argument expression, i from 0, of a variadic call is to
\* be evaluated against: the element type from the variadic parameter on
ExpectedType(i) ==
    IF i + (IF call.injectSelf THEN 1 ELSE 0) >= Len(call.fn.params) - 1
    THEN Elem(call.fn.params[Len(call.fn.params)])
    ELSE call.fn.params[i + (IF call.injectSelf THEN 1 ELSE 0) + 1]

\* C14: a variadic callable never gets an arity error, whatever the
\* number of arguments; each argument expression evaluated is evaluated against
\* the type of its parameter, the element type of the variadic parameter from
\* that parameter on, and the call fails with a type error exactly when an
\* expression is not of that type.
C14_Variadic ==
    (call.done /\ call.fn.variadic) =>
        /\ ~ArityReported
        /\ \A k \in 1..Len(call.out.evaluated) :
              call.out.evaluated[k] = <<k - 1, ExpectedType(k - 1)>>
        /\ call.out.panic = "type"
              <=> \E i \in 1..Len(call.args) : call.args[i] # ExpectedType(i - 1)
        /\ call.out.panic # "type" => Len(call.out.evaluated) = Len(call.args)

\* func(string, ...int) has run with a string and an int expression and a
\* piped int
C14_Witness ==
    /\ call.done /\ call.fn.variadic /\ call.out.ran
    /\ Len(call.fn.params) = 2 /\ ~call.injectSelf
    /\ call.out.evaluated = <<<<0, "string">>, <<1, "int">>>>
    /\ call.out.passed = <<"string", "int", "int">>

\* C15: with the context injected, a non-variadic callable with exactly
\* one parameter runs with the context as its only argument, whatever the
\* argument expressions and the piped value, with no arity error and no argument
\* evaluated.
C15_SingleContextExempt ==
    (call.done /\ call.injectSelf /\ ~call.fn.variadic /\ Len(call.fn.params) = 1) =>
        /\ call.out.ran /\ call.out.passed = <<"context">>
        /\ call.out.evaluated = <<>>
        /\ ~ArityReported /\ call.out.panic = "none"

\* func(*Context) string has run although two argument expressions and a piped
\* value were supplied
C15_Witness ==
    /\ call.done /\ call.injectSelf /\ call.out.ran
    /\ Len(call.fn.params) = 1 /\ ~call.fn.variadic
    /\ Len(call.args) = 2 /\ call.final # None
    /\ call.out.passed = <<"context">>

\* -------------------------------------------------------------- range loop alone

\* the registries of the executions: none, or the manager without restriction
Registries == {EmptyMap, MapSet(EmptyMap, "all", <<CatchAll>>)}

\* what the writer holds before Execute
Priors == {<<>>, <<"prior">>}

\* Execute(wr, nil) of the template of Test_flow_control is about to start
InitFlow ==
    /\ managers \in Registries
    /\ keys = IF managers = EmptyMap THEN <<>> ELSE <<"all">>
    /\ missingKey = mapInvalid
    /\ ctx = newContext(0, None, "", nilv, nilv)
    /\ orig = NoCall
    /\ invoked = <<>>
    /\ ret = NoReturn
    /\ em = NoManager
    /\ probe = NoProbe
    /\ removed = None
    /\ call = NoAdapterCall
    /\ exec \in {[NoExec EXCEPT !.stmt = st.stmt, !.args = st.args, !.trigger = tr,
                                !.isBuffer = b, !.prior = prior, !.out = prior,
                                !.phase = "start"] :
                    st \in Statements, tr \in Triggers, b \in BOOLEAN, prior \in Priors}

Executing ==
    UNCHANGED <<managers, keys, missingKey, ctx, orig, invoked, ret, em, probe, removed, call>>

\* {{ "List: " }}, then the range starts
Begin ==
    /\ exec.phase = "start"
    /\ exec' = [exec EXCEPT !.out = @ \o <<"List: ">>, !.phase = "loop", !.pos = 1]
    /\ Executing

\* one iteration of the range: the body runs under flow()
Iterate ==
    /\ exec.phase = "loop"
    /\ exec.pos <= MaxSeq
    /\ \E body \in {Body(exec, exec.pos, keys, managers, missingKey)} :
          exec' = walkRangeStep(exec, exec.pos, body)
    /\ Executing

\* the elements are exhausted
EndRange ==
    /\ exec.phase = "loop"
    /\ exec.pos > MaxSeq
    /\ exec' = [exec EXCEPT !.phase = "after"]
    /\ Executing

\* {{ "!" }}, what follows the range, then Execute returns
AfterRange ==
    /\ exec.phase = "after"
    /\ exec' = [exec EXCEPT !.out = @ \o <<"!">>, !.phase = "done"]
    /\ Executing

NextFlow == Begin \/ Iterate \/ EndRange \/ AfterRange

SpecFlow == InitFlow /\ [][NextFlow]_vars

\* -------------------------------------------------------------- return alone

MaxOut == 3

RECURSIVE OutputsOfLen(_)
\* what the template has written when return is called
OutputsOfLen(n) ==
    IF n = 0 THEN {<<>>}
    ELSE {<<t>> \o o : t \in {"List: ", "1", "-"}, o \in OutputsOfLen(n - 1)}

Outputs == UNION {OutputsOfLen(n) : n \in 0..MaxOut}

\* what the calling template wrote, and what the invocation wrote after it
Written == {w \in Outputs \X Outputs : Len(w[1]) + Len(w[2]) <= MaxOut}

\* the template is about to call return: the writer of the state holds what the
\* calling template wrote before the invocation (prior), then what the
\* invocation wrote
InitReturn ==
    /\ managers = EmptyMap
    /\ keys = <<>>
    /\ missingKey = mapInvalid
    /\ ctx = newContext(0, None, "", nilv, nilv)
    /\ orig = NoCall
    /\ invoked = <<>>
    /\ ret = NoReturn
    /\ em = NoManager
    /\ probe = NoProbe
    /\ removed = None
    /\ call = NoAdapterCall
    /\ exec \in {[NoExec EXCEPT !.stmt = "return", !.args = a, !.isBuffer = b,
                                !.out = w[1] \o w[2], !.prior = w[1],
                                !.phase = "call"] :
                    a \in ReturnArgs, b \in BOOLEAN, w \in Written}

\* flowReturnValues(context)
ReturnCalled ==
    /\ exec.phase = "call"
    /\ \E r \in {flowReturnValues(exec.out, exec.args, exec.isBuffer)} :
          exec' = [exec EXCEPT !.before = exec.out, !.out = r.out, !.rec = r.rec,
                               !.phase = "returned"]
    /\ Executing

SpecReturn == InitReturn /\ [][ReturnCalled]_vars

\* the same executions, each step of which is eventually taken: one thread runs
\* the template to its end
SpecFlowLive == SpecFlow /\ WF_vars(NextFlow)

\* -------------------------------------------------------------- range loop claims

\* the first element on which the condition of the statement holds
FirstTrigger ==
    IF exec.trigger = {} THEN 0
    ELSE CHOOSE k \in exec.trigger : \A j \in exec.trigger : k <= j

\* the statement was called during an iteration that has run
Raised == \E k \in 1..Len(exec.iterated) : exec.iterated[k] \in exec.trigger

\* the separator written before the element i
Dash(i) == IF i > 1 THEN <<"-">> ELSE <<>>

RECURSIVE Listed(_, _)
\* what the elements 1..n write when the statement ends the body of those of
\* skipped before their value is written
Listed(n, skipped) ==
    IF n = 0 THEN <<>>
    ELSE Listed(n - 1, skipped) \o Dash(n)
         \o (IF n \in skipped THEN <<>> ELSE <<Sprint(n)>>)

\* the writer before the loop
Heading == exec.prior \o <<"List: ">>

\* the elements iterated are the first n, in order
IteratedTo(n) ==
    /\ Len(exec.iterated) = n
    /\ \A k \in 1..n : exec.iterated[k] = k

\* the loop was ended by a break raised at the first element of the condition:
\* that element is the last one iterated and what was written is kept
BrokenAt(k) ==
    /\ exec.phase \in {"after", "done"}
    /\ IteratedTo(k)
    /\ exec.escaped = NoPanic
    /\ exec.out = Heading \o Listed(k, {k})
                    \o (IF exec.phase = "done" THEN <<"!">> ELSE <<>>)

\* C16: when the body of the range raises break the loop ends: no
\* later element is iterated, the output written before the break, the part of
\* the current iteration included, is kept, and the execution goes on with what
\* follows the loop, which it eventually completes.
C16_BreakEndsLoop ==
    (exec.stmt = "break" /\ Raised) ~> (exec.phase = "done" /\ BrokenAt(FirstTrigger))

\* break on the second of the elements: "List: 1-!" after what the writer held
C16_Witness ==
    /\ exec.stmt = "break" /\ exec.trigger = {2, 3}
    /\ exec.phase = "done"
    /\ exec.iterated = <<1, 2>>
    /\ exec.out = exec.prior \o <<"List: ", "1", "-", "!">>

\* C17: when the body raises continue only the rest of that iteration
\* is skipped: what it wrote before is kept, every remaining element is iterated
\* in order, and the execution goes on after the loop once the elements are
\* exhausted.
C17_ContinueSkipsRest ==
    /\ [](exec.stmt = "continue" /\ exec.phase \in {"loop", "after", "done"} =>
            /\ IteratedTo(exec.pos - 1)
            /\ exec.escaped = NoPanic
            /\ exec.phase # "loop" => exec.pos = MaxSeq + 1
            /\ exec.out = Heading \o Listed(exec.pos - 1, exec.trigger)
                            \o (IF exec.phase = "done" THEN <<"!">> ELSE <<>>))
    /\ [](exec.stmt = "continue" => exec.phase # "failed")
    /\ (exec.stmt = "continue") ~> (exec.phase = "done" /\ IteratedTo(MaxSeq))

\* continue on the first two elements: "List: --3!"
C17_Witness ==
    /\ exec.stmt = "continue" /\ exec.trigger = {1, 2}
    /\ exec.phase = "done"
    /\ exec.iterated = <<1, 2, 3>>
    /\ exec.out = exec.prior \o <<"List: ", "-", "-", "3", "!">>

\* C18: a return raised in the body is not absorbed by the loop:
\* flow() raises it again unchanged, no later element is iterated and nothing
\* that follows the loop is executed; and flow() raises again, unchanged, every
\* recovered value that is not a flow-control signal.
C18_ReturnNotAbsorbed ==
    /\ (exec.stmt = "return" /\ Raised) =>
          /\ exec.rec = FlowControl(fcReturn)
          /\ exec.escaped = exec.rec
          /\ exec.phase = "done"
          /\ IteratedTo(FirstTrigger)
          /\ exec.pos = FirstTrigger + 1
          /\ exec.out # <<>> => exec.out[Len(exec.out)] # "!"
    /\ exec.rec.type \notin {"nil", "flowControl"} =>
          /\ exec.escaped = exec.rec
          /\ exec.phase = "failed"
          /\ IteratedTo(FirstTrigger)

\* return without argument on the second element: the execution has ended
\* there with "List: 1-"
C18_Witness ==
    /\ exec.stmt = "return" /\ exec.args = <<>> /\ exec.trigger = {2}
    /\ exec.phase = "done" /\ exec.escaped = FlowControl(fcReturn)
    /\ exec.iterated = <<1, 2>>
    /\ exec.out = exec.prior \o <<"List: ", "1", "-">>

\* a failure that no manager recovers has left the loop through flow()
C18_FailureWitness ==
    /\ exec.stmt = "fail" /\ exec.phase = "failed"
    /\ exec.rec = ExecError(1) /\ exec.escaped = exec.rec

\* the rendering of the arguments of return: the value, or the list of them
Rendering ==
    IF exec.args = <<1>> THEN <<"1">>
    ELSE IF exec.args = <<1, 2>> THEN <<"[", "1", " ", "2", "]">>
    ELSE <<>>

Signals == {"break", "continue", "return"}

\* the step is an iteration of the range
Iterated == exec.phase = "loop" /\ exec.pos <= MaxSeq /\ exec' # exec

PrintLists == {<<>>, <<mJson>>, <<mText>>, <<mBroken>>, <<mDecline>>,
               <<mBroken, mJson>>, <<mDecline, mText>>}

\* the values rendered: a list, a map-like value and a text
Rendered == {TwoElements, StructValue, StringValue(<<2>>)}

\* a template whose managers were registered under two names, before it renders
InitFormat ==
    /\ managers \in {Register(Register(EmptyMap, <<1>>, l1), <<2>>, l2) :
                        l1 \in PrintLists, l2 \in PrintLists}
    /\ keys \in {SortStrings(order) : order \in MapOrders(DOMAIN managers)}
    /\ missingKey = mapInvalid
    /\ ctx = newContext(0, None, "", nilv, nilv)
    /\ orig = NoCall
    /\ invoked = <<>>
    /\ ret = NoReturn
    /\ em = NoManager
    /\ probe = NoProbe
    /\ removed = None
    /\ call = NoAdapterCall
    /\ exec = NoExec

\* a value is rendered
NextFormat == \E iface \in Rendered : Format(iface)

SpecFormat == InitFormat /\ [][NextFormat]_vars

\* -------------------------------------------------------------- format claims

\* the manager is restricted to the Print source and to kinds, and to nothing else
PrintOnKinds(m) ==
    /\ m.source = PrintSource /\ Len(m.kinds) > 0
    /\ m.mode = 0 /\ Len(m.members) = 0 /\ Len(m.filters) = 0

\* the kind is one of the list
KindIn(kind, kinds) == \E i \in 1..Len(kinds) : kinds[i] = kind

\* the scan had returned before it reached slot
StoppedBefore(slot) ==
    \E i \in 1..Len(invoked) : Before(invoked[i], slot) /\ StoppedAt(i)

\* the value the last handler that substituted returned
LastSubstituted ==
    HandlerFun(InvokedManager(SetMax({i \in 1..Len(invoked) : Substitutes(i)})).fun,
               newContext(orig.source, orig.err, orig.name, orig.receiver,
                          orig.result)).value

\* C21: when a value is rendered with managers registered, a manager of
\* the Print source restricted with OnKinds replaces the value exactly when the
\* kind of the value is in its list (and no earlier manager ended the recovery);
\* a value for which no handler substitutes is rendered unchanged; the render is
\* aborted exactly when a failure is left by the handlers.
C21_PrintKinds ==
    (orig.op = "format" /\ ret.created) =>
        /\ \A slot \in RegisteredSlots :
              PrintOnKinds(managers[slot[1]][slot[2]]) =>
                 ((\E i \in 1..Len(invoked) : invoked[i] = slot)
                  <=> /\ KindIn(orig.receiver.kind, managers[slot[1]][slot[2]].kinds)
                      /\ ~StoppedBefore(slot))
        /\ IF \E i \in 1..Len(invoked) : Substitutes(i)
           THEN ctx.result = LastSubstituted
           ELSE ctx.result = orig.result /\ ret.err = None
        /\ ret.panicked <=> ret.err # None
        /\ ret.err = FailureAfter(Len(invoked))

\* a list was replaced by the manager of the lists, after a manager without
\* restriction declined and the manager of the texts was passed over
C21_Witness ==
    /\ orig.op = "format" /\ orig.receiver.kind = "Slice"
    /\ DOMAIN managers = {<<1>>, <<2>>}
    /\ managers[<<1>>] = <<mDecline, mText>> /\ managers[<<2>>] = <<mJson>>
    /\ invoked = <<<<<<1>>, 1>>, <<<<2>>, 1>>>>
    /\ ctx.result = StringValue(ZeroText) /\ ~ret.panicked

\* the handler of a manager left a failure: the render is aborted
C21_AbortWitness ==
    /\ orig.op = "format" /\ orig.receiver.kind = "Slice"
    /\ DOMAIN managers = {<<2>>}
    /\ managers[<<2>>] = <<mBroken>> /\ ret.err = HandlerFailure /\ ret.panicked

\* -------------------------------------------------------------- array claims

\* C22: when the last handler that substituted returned ResultAsArray
\* with a collection of n elements, the result is a list of exactly n values,
\* the i-th of which is the member of the original access evaluated with the
\* i-th element of the collection as receiver, in the order of the elements.
C22_ArrayPerElement ==
    (orig.op # "none" /\ ret.created /\ ret.action = ResultAsArray
        /\ HasElements(LastSubstituted)) =>
        /\ ~ret.panicked
        /\ ctx.result.kind = "Slice"
        /\ ctx.result.member = orig.name
        /\ Len(ctx.result.data) = Len(Elements(LastSubstituted))
        /\ \A i \in 1..Len(ctx.result.data) :
              ctx.result.data[i] = Elements(LastSubstituted)[i]

\* the "Testing array" manager returned the receiver, a list of two elements:
\* the member was evaluated on the first and on the second
C22_Witness ==
    /\ orig.op = "result" /\ orig.receiver = TwoElements /\ orig.name = "other"
    /\ ret.created /\ ret.action = ResultAsArray /\ ret.err = None
    /\ ctx.result = [kind |-> "Slice", data |-> <<<<1>>, <<2>>>>, ro |-> FALSE,
                     member |-> "other"]

\* -------------------------------------------------------------- call stack

\* state.pushStack(name, fun): the frame is appended; a frame is its Name
pushStack(stack, name) == Append(stack, name)

\* mutant of popStack: the oldest frame is removed and returned
popStackOldest(stack) == [result |-> stack[1], stack |-> SubSeq(stack, 2, Len(stack))]

\* state.popStack(): last := len(s.stack)-1; result = s.stack[last];
\* s.stack = s.stack[:last]
popStack(stack) ==
    [result |-> stack[Len(stack)], stack |-> SubSeq(stack, 1, Len(stack) - 1)]

\* state.peekStack(n): s.stack[len(s.stack)-n-1]
peekStack(stack, n) == stack[Len(stack) - n]

\* Context.StackLen and Context.StackPeek
StackLen(stack) == Len(stack)
StackPeek(stack, n) == peekStack(stack, n)

\* the index s.stack[i] is inside the slice (0-based in the code)
InStack(stack, i) == i \in 0..(Len(stack) - 1)

\* the failure of the runtime on an index outside the slice, a runtime.Error
IndexOutOfRange == ErrorValue(0)

\* the names of the callables on the stack
FrameNames == {"trap", "fail", "include"}

RECURSIVE StacksOfLen(_)
StacksOfLen(n) ==
    IF n = 0 THEN {<<>>}
    ELSE {Append(s, f) : s \in StacksOfLen(n - 1), f \in FrameNames}

Stacks == UNION {StacksOfLen(n) : n \in 0..MaxStack}

\* -------------------------------------------------------------- trap

\* the filters of callFailHandler: a(?P<function>.*)b(?P<error>.*) stands for
\* `error calling (?P<function>.*): (?P<error>.*)`, then (?P<error>.*)
fCalling == <<Lit(<<1>>), Grp("function", 0), Lit(<<2>>), Grp("error", 0)>>
fAny == <<Grp("error", 0)>>

\* CallFailID, the name the trap handler is registered under
CallFailID == <<1>>

\* mutant of callFailHandler: the handler looks at the frame on top
callFailHandlerTop(stack) ==
    OnSources(NewErrorManager(
        IF StackLen(stack) > 1 /\ StackPeek(stack, 0) = "trap"
        THEN Handler(ResultReplaced, "clear", "match")
        ELSE Handler(NoReplace, "keep", "nil"),
        <<fCalling, fAny>>), <<Call>>)

\* callFailHandler() as it behaves while the call stack of the state is stack:
\* inside trap the handler clears the failure and substitutes the "error"
\* group, anywhere else it declines
callFailHandler(stack) ==
    OnSources(NewErrorManager(
        IF StackLen(stack) > 1 /\ StackPeek(stack, 1) = "trap"
        THEN Handler(ResultReplaced, "clear", "match")
        ELSE Handler(NoReplace, "keep", "nil"),
        <<fCalling, fAny>>), <<Call>>)

\* -------------------------------------------------------------- trap alone

\* a render whose call stack is any stack, with the trap handler registered
InitTrap ==
    /\ exec \in {[NoExec EXCEPT !.stack = s] : s \in Stacks}
    /\ managers = Register(EmptyMap, CallFailID, <<callFailHandler(exec.stack)>>)
    /\ keys = <<CallFailID>>
    /\ missingKey = mapInvalid
    /\ ctx = newContext(0, None, "", nilv, nilv)
    /\ orig = NoCall
    /\ invoked = <<>>
    /\ ret = NoReturn
    /\ em = NoManager
    /\ probe = NoProbe
    /\ removed = None
    /\ call = NoAdapterCall

\* the failures of the calls: texts one character longer than elsewhere, so
\* that both groups of the first filter can take a character
TrapFailures ==
    {None} \cup {Some(t) : t \in UNION {TextsOfLen(n) : n \in 0..(MaxTextLen + 1)}}

\* a call fails, or leaves no result, and the call site hands it to state.result
NextTrap ==
    \E err \in TrapFailures, name \in MemberNames, slot \in Slots :
        Result(CallError, err, name, slot[1], slot[2])

SpecTrap == InitTrap /\ [][NextTrap]_vars

\* -------------------------------------------------------------- trap claims

\* the call stack holds more than one frame and the one below the top is trap
InsideTrap == Len(exec.stack) > 1 /\ exec.stack[Len(exec.stack) - 1] = "trap"

\* the text holds the first filter somewhere (the filters are not anchored): a
\* character 1 and, later, a character 2
CallingShape(t) == \E i \in 1..Len(t), j \in 1..Len(t) : i < j /\ t[i] = 1 /\ t[j] = 2

\* the text v is what follows the last character 2 of the text t
AfterLastColon(t, v) ==
    \E i \in 1..Len(t) :
        /\ t[i] = 2
        /\ v = SubSeq(t, i + 1, Len(t))
        /\ \A j \in (i + 1)..Len(t) : t[j] # 2

C23_DeclineWitness ==
    /\ orig.op = "result" /\ orig.err = Some(<<2, 1>>)
    /\ exec.stack = <<"fail", "trap">>
    /\ ret.err = orig.err /\ ret.action = NoReplace

\* -------------------------------------------------------------- nested return claims

\* C24 as stated: a return with values raised inside a nested template
\* invocation discards only what that invocation wrote: afterwards the sink
\* holds what the calling template wrote before the invocation, then the
\* rendering of the values, whatever the kind of the sink.
C24_ReturnKeepsCallerOutput ==
    (exec.phase = "returned" /\ exec.args # <<>>) =>
        exec.out = exec.prior \o Rendering

\* -------------------------------------------------------------- recovery boundary alone

\* what a deferred recover() returns: nothing, a signal, an error, an
\* execution error, or a value that is not an error
Recovers ==
    {NoPanic} \cup {FlowControl(fc) : fc \in {fcFlow, fcBreak, fcContinue, fcReturn}}
    \cup UNION {{ErrorValue(i), ExecError(i), OtherValue(i)} : i \in 1..MaxPanic}

\* a function of the executor is unwinding with a deferred state.recover(f)
InitRecover ==
    /\ managers = EmptyMap
    /\ keys = <<>>
    /\ missingKey = mapInvalid
    /\ ctx = newContext(0, None, "", nilv, nilv)
    /\ orig = NoCall
    /\ invoked = <<>>
    /\ ret = NoReturn
    /\ em = NoManager
    /\ probe = NoProbe
    /\ removed = None
    /\ call = NoAdapterCall
    /\ exec \in {[NoExec EXCEPT !.stmt = f, !.rec = rec, !.phase = "unwinding"] :
                    f \in RecoverFuns, rec \in Recovers}

\* state.recover(f) runs: what it raises is what escapes the function
Recover ==
    /\ exec.phase = "unwinding"
    /\ exec' = [exec EXCEPT !.escaped = stateRecover(exec.rec, exec.stmt),
                            !.phase = "recovered"]
    /\ Executing

SpecRecover == InitRecover /\ [][Recover]_vars

\* -------------------------------------------------------------- recovery boundary claims

\* C25: at the recovery boundary of the executor, unless the function given
\* to state.recover took the failure away: a recovered signal or execution error
\* is raised again unchanged, a nil recovery raises nothing, an error is
\* converted into an execution error with its text, and a value that is not an
\* error into an execution error with the text "Panic " and the value.
C25_RecoveryBoundary ==
    exec.phase = "recovered" =>
        IF exec.stmt = "none" THEN exec.escaped = NoPanic
        ELSE CASE exec.rec.type = "nil" -> exec.escaped = NoPanic
               [] exec.rec.type \in {"flowControl", "ExecError"} ->
                    exec.escaped = exec.rec
               [] exec.rec.type = "error" ->
                    exec.escaped = [type |-> "ExecError", v |-> exec.rec.v]
               [] OTHER ->
                    exec.escaped = [type |-> "ExecError", v |-> 10 + exec.rec.v]

\* a panic with a value that is not an error, under state.recover(nil), leaves
\* as an execution error
C25_Witness ==
    /\ exec.phase = "recovered" /\ exec.stmt = "nil"
    /\ exec.rec = OtherValue(2)
    /\ exec.escaped = ExecError(12)

\* a return signal under state.recover(nil) is raised again as it is
C25_SignalWitness ==
    /\ exec.phase = "recovered" /\ exec.stmt = "nil"
    /\ exec.rec = FlowControl(fcReturn)
    /\ exec.escaped = exec.rec

\* -------------------------------------------------------------- call stack alone

\* a state whose call stack is empty
InitStack ==
    /\ managers = EmptyMap
    /\ keys = <<>>
    /\ missingKey = mapInvalid
    /\ ctx = newContext(0, None, "", nilv, nilv)
    /\ orig = NoCall
    /\ invoked = <<>>
    /\ ret = NoReturn
    /\ em = NoManager
    /\ probe = NoProbe
    /\ removed = None
    /\ call = NoAdapterCall
    /\ exec = NoExec

\* s.pushStack(name, fun); under keeps the stack the frame was pushed on
PushStack(name) ==
    /\ Len(exec.stack) < MaxStack
    /\ exec' = [exec EXCEPT !.stack = pushStack(@, name), !.stmt = name,
                            !.under = Some(exec.stack), !.frame = None,
                            !.rec = NoPanic, !.phase = "pushed"]
    /\ Executing

\* s.popStack(): the frame returned, or the failure of the index -1
PopStack ==
    /\ exec' = IF InStack(exec.stack, Len(exec.stack) - 1)
               THEN [exec EXCEPT !.stack = popStack(exec.stack).stack,
                                 !.frame = Some(popStack(exec.stack).result),
                                 !.under = IF exec.phase = "pushed" THEN @ ELSE None,
                                 !.rec = NoPanic, !.phase = "popped"]
               ELSE [exec EXCEPT !.frame = None, !.under = None,
                                 !.rec = IndexOutOfRange, !.phase = "popped"]
    /\ Executing

\* s.peekStack(n): the frame returned, or the failure of the index
PeekStack(n) ==
    /\ exec' = IF InStack(exec.stack, Len(exec.stack) - n - 1)
               THEN [exec EXCEPT !.frame = Some(peekStack(exec.stack, n)), !.pos = n,
                                 !.under = None, !.rec = NoPanic, !.phase = "peeked"]
               ELSE [exec EXCEPT !.frame = None, !.pos = n, !.under = None,
                                 !.rec = IndexOutOfRange, !.phase = "peeked"]
    /\ Executing

NextStack ==
    \/ \E name \in FrameNames : PushStack(name)
    \/ PopStack
    \/ \E n \in 0..MaxStack : PeekStack(n)

SpecStack == InitStack /\ [][NextStack]_vars

\* -------------------------------------------------------------- call stack claims

\* the step returned a frame
ReturnedFrame(phase) == exec'.phase = phase /\ exec'.rec = NoPanic /\ exec' # exec

\* C26: the call stack is last-in first-out. A push puts the frame on top
\* of the frames already there; popStack returns the frame on top, the one
\* pushed last among those still on the stack, and removes it and nothing else;
\* a pop right after a push returns the frame pushed and leaves the stack as it
\* was before the push; peekStack(n) returns the frame n below the top and leaves
\* the stack as it is.
C26_StackLIFO ==
    [][/\ (exec'.phase = "pushed" /\ exec' # exec) =>
              exec'.stack = exec.stack \o <<exec'.stmt>>
       /\ ReturnedFrame("popped") =>
              /\ exec.stack = exec'.stack \o exec'.frame
              /\ exec.phase = "pushed" =>
                    exec'.stack = exec.under[1] /\ exec'.frame = <<exec.stmt>>
       /\ ReturnedFrame("peeked") =>
              /\ exec'.stack = exec.stack
              /\ exec'.pos < Len(exec.stack)
              /\ exec'.frame = <<exec.stack[Len(exec.stack) - exec'.pos]>>]_vars

\* fail was pushed on include, trap and popped: the stack is include, trap again
C26_Witness ==
    /\ exec.phase = "popped" /\ exec.rec = NoPanic
    /\ exec.under = Some(<<"include", "trap">>)
    /\ exec.stack = <<"include", "trap">>
    /\ exec.frame = Some("fail")

\* peekStack(1) on include, trap, fail returned trap
C26_PeekWitness ==
    /\ exec.phase = "peeked" /\ exec.pos = 1
    /\ exec.stack = <<"include", "trap", "fail">>
    /\ exec.frame = Some("trap")

\* -------------------------------------------------------------- result slot claims

\* C27 as stated: whenever tryRecover has returned, exactly one of the two
\* holds: the result slot holds a valid, interfaceable, non-nil value, or the
\* failure is non-nil.
C27_ResultXorFailure ==
    (ret.created /\ ~ret.panicked) => (isValid(ctx.result) # (ctx.err # None))

\* -------------------------------------------------------------- declining managers alone

\* the manager lists of a template whose handlers mostly decline or do not apply
DeclineLists == {<<>>, <<mDecline>>, <<mZero, mDecline>>, <<mDeclineSet, mArray>>,
                 <<mTrap>>, <<mDecline, mDeclineSet>>}

\* a template whose managers were registered under two names, before it renders
InitDecline ==
    /\ managers \in {Register(Register(EmptyMap, <<1>>, l1), <<2>>, l2) :
                        l1 \in DeclineLists, l2 \in DeclineLists}
    /\ keys \in {SortStrings(order) : order \in MapOrders(DOMAIN managers)}
    /\ missingKey = mapInvalid
    /\ ctx = newContext(0, None, "", nilv, nilv)
    /\ orig = NoCall
    /\ invoked = <<>>
    /\ ret = NoReturn
    /\ em = NoManager
    /\ probe = NoProbe
    /\ removed = None
    /\ call = NoAdapterCall
    /\ exec = NoExec

\* a field or a call fails, or leaves no result
NextDecline ==
    \E source \in {FieldError, CallError}, err \in Failures,
       name \in MemberNames, slot \in Slots :
       Result(source, err, name, slot[1], slot[2])

SpecDecline == InitDecline /\ [][NextDecline]_vars

\* -------------------------------------------------------------- declining managers claims

\* every registered manager cannot manage the context as it is when the loops
\* reach it, or has a handler that returns NoReplace
AllDecline ==
    \A slot \in RegisteredSlots :
        \/ ~ManagesWhenReached(slot)
        \/ managers[slot[1]][slot[2]].fun.act = NoReplace

\* no handler that ran wrote to the failure slot
FailureUntouched ==
    \A i \in 1..Len(invoked) : InvokedManager(i).fun.errop = "keep"

\* C28: when every registered manager cannot manage the context or declines,
\* tryRecover returns NoReplace with the result slot as it was given, has run no
\* handler twice (each in key order, then registration order), and returns the
\* failure it was given if no handler wrote to the failure slot.
C28_AllDecline ==
    (orig.op = "result" /\ ret.created /\ AllDecline) =>
        /\ ~ret.panicked /\ ret.action = NoReplace
        /\ ctx.result = orig.result
        /\ InOrder
        /\ FailureUntouched => ret.err = orig.err

\* two declining handlers and one that does not apply: both handlers ran once,
\* the slot and the failure are as given
C28_Witness ==
    /\ orig.op = "result" /\ orig.err = Some(<<1, 2>>)
    /\ orig.result = NilInterface
    /\ DOMAIN managers = {<<1>>, <<2>>}
    /\ managers[<<1>>] = <<mDecline>> /\ managers[<<2>>] = <<mZero, mDecline>>
    /\ invoked = <<<<<<1>>, 1>>, <<<<2>>, 2>>>>
    /\ ctx.result = NilInterface /\ ret.err = orig.err

\* a handler that declines after SetError: the failure returned is the one it wrote
C28_SetWitness ==
    /\ orig.op = "result" /\ orig.err = Some(<<1>>)
    /\ DOMAIN managers = {<<1>>}
    /\ managers[<<1>>] = <<mDecline, mDeclineSet>>
    /\ AllDecline /\ ret.err = HandlerFailure /\ ctx.result = orig.result

\* -------------------------------------------------------------- arguments

\* the final value state.format gives to newContext: nilv, the zero
\* reflect.Value, which is not missingVal
NilFinal == Some("invalid")

RECURSIVE EvalArgsFrom(_, _, _)
\* one turn after another of the loop of EvalArgs, i counting from 0:
\* c.state.evalArg of the expression against interface{}, which raises the
\* execution error when the callable of the expression fails
EvalArgsFrom(args, i, acc) ==
    IF i >= Len(args) THEN acc
    ELSE IF args[i + 1] = "fails"
    THEN [acc EXCEPT !.evaluated = Append(@, <<i, "interface">>), !.panic = "eval"]
    ELSE EvalArgsFrom(args, i + 1,
                      [acc EXCEPT !.passed = Append(@, args[i + 1]),
                                  !.evaluated = Append(@, <<i, "interface">>)])

\* the loop of EvalArgs: every argument expression, in source order, evaluated
\* against the type interface{}
EvalArgsLoop(args) ==
    EvalArgsFrom(args, 0, Outcome(nilv, None, FALSE, <<>>, <<>>, "none"))

\* if c.Final() != missingVal { result = append(result, c.Final().Interface()) }
\* where Interface() panics on the zero reflect.Value
EvalArgsFinal(final, acc) ==
    IF acc.panic # "none" THEN acc
    ELSE IF final = None THEN acc
    ELSE IF final = NilFinal THEN [acc EXCEPT !.panic = "interface"]
    ELSE [acc EXCEPT !.passed = Append(@, final[1])]

\* Context.EvalArgs
EvalArgs(args, final) == EvalArgsFinal(final, EvalArgsLoop(args))

\* -------------------------------------------------------------- arguments alone

\* the evaluation sites: a field or a call with its argument expressions and
\* its piped value or missingVal, and state.format with no argument and nilv
Sites ==
    {<<args, final>> : args \in ArgLists, final \in Finals} \cup {<<<<>>, NilFinal>>}

\* a handler is given the context of one of the sites
InitArgs ==
    /\ managers = EmptyMap
    /\ keys = <<>>
    /\ missingKey = mapInvalid
    /\ ctx = newContext(0, None, "", nilv, nilv)
    /\ orig = NoCall
    /\ invoked = <<>>
    /\ ret = NoReturn
    /\ em = NoManager
    /\ probe = NoProbe
    /\ removed = None
    /\ call \in {[NoAdapterCall EXCEPT !.err = err, !.args = site[1], !.final = site[2]] :
                    err \in EarlierFailures, site \in Sites}
    /\ exec = NoExec

\* the handler calls context.EvalArgs()
EvalArgsCalled ==
    /\ ~call.done
    /\ Called(FALSE, EvalArgs(call.args, call.final))
    /\ UNCHANGED <<managers, keys, missingKey, ctx, orig, invoked, ret, em, probe, removed, exec>>

\* the handler calls context.ArgCount()
ArgCountCalled ==
    /\ exec.phase = "none"
    /\ exec' = [exec EXCEPT !.phase = "counted", !.pos = ArgCount(call.args, call.final)]
    /\ UNCHANGED <<managers, keys, missingKey, ctx, orig, invoked, ret, em, probe, removed, call>>

NextArgs == EvalArgsCalled \/ ArgCountCalled

SpecArgs == InitArgs /\ [][NextArgs]_vars

\* -------------------------------------------------------------- arguments claims

\* a value was piped into the site
Piped == call.final \notin {None, NilFinal}

\* C29 as stated: EvalArgs returns the evaluated argument expressions in
\* source order followed, only when a piped value is present, by the piped
\* value, and ArgCount always equals the length of that list.
C29_EvalArgsMatchesCount ==
    (call.done /\ exec.phase = "counted") =>
        /\ call.out.panic = "none"
        /\ call.out.passed = call.args \o (IF Piped THEN call.final ELSE <<>>)
        /\ exec.pos = Len(call.out.passed)

\* -------------------------------------------------------------- two renders alone

\* the failing contexts of the renders
RenderContexts ==
    {newContext(CallError, Some(t), name, TwoElements, NilInterface) :
        t \in {<<1>>, <<1, 2>>}, name \in MemberNames}

\* a render that enters tryRecover with the context c: its own Context, and its
\* own position in the two loops
Entering(c) ==
    [c |-> c,
     step |-> [st |-> [c |-> c, invoked |-> <<>>, action |-> NoReplace],
               ki |-> 1, hi |-> 1, stop |-> FALSE],
     done |-> FALSE,
     out |-> Recovered([c |-> c, invoked |-> <<>>, action |-> NoReplace])]

\* mutant of LoopTurn: the two renders share one Context, so the groups
\* recorded for one are seen by the other
LoopTurnSharedContext(renders, r, ks, ms, mk) ==
    [q \in 1..Len(renders) |->
        IF q = r
        THEN [renders[q] EXCEPT !.step = ScanStep(@.st, ks, ms, mk, @.ki, @.hi)]
        ELSE [renders[q] EXCEPT !.step.st.c.matches =
                 ScanStep(renders[r].step.st, ks, ms, mk,
                          renders[r].step.ki, renders[r].step.hi).st.c.matches]]

\* the render r makes one turn of the loops of tryRecover, on its own Context
LoopTurn(renders, r, ks, ms, mk) ==
    [renders EXCEPT ![r].step = ScanStep(@.st, ks, ms, mk, @.ki, @.hi)]

\* two renders of a template whose managers are registered enter tryRecover
InitRenders ==
    /\ managers \in {Register(Register(EmptyMap, <<1>>, l1), <<2>>, l2) :
                        l1 \in ManagerLists \cup {<<>>}, l2 \in ManagerLists \cup {<<>>}}
    /\ keys \in {SortStrings(order) : order \in MapOrders(DOMAIN managers)}
    /\ missingKey = mapInvalid
    /\ ctx = newContext(0, None, "", nilv, nilv)
    /\ orig = NoCall
    /\ invoked = <<>>
    /\ ret = NoReturn
    /\ em = NoManager
    /\ probe = NoProbe
    /\ removed = None
    /\ call = NoAdapterCall
    /\ exec \in {[NoExec EXCEPT !.renders = <<Entering(c1), Entering(c2)>>] :
                    c1 \in RenderContexts, c2 \in RenderContexts}

\* the loops of the render r are not over
InLoops(r) ==
    /\ ~exec.renders[r].done
    /\ ~exec.renders[r].step.stop
    /\ exec.renders[r].step.ki <= Len(keys)

\* one manager is visited by the render r: CanManage, then its handler
RenderTurn(r) ==
    /\ InLoops(r)
    /\ exec' = [exec EXCEPT !.renders = LoopTurn(@, r, keys, managers, missingKey)]
    /\ Executing

\* tryRecover returns in the render r
RenderReturns(r) ==
    /\ ~exec.renders[r].done
    /\ ~InLoops(r)
    /\ exec' = [exec EXCEPT !.renders[r].done = TRUE,
                            !.renders[r].out = Recovered(exec.renders[r].step.st)]
    /\ Executing

NextRenders == \E r \in 1..2 : RenderTurn(r) \/ RenderReturns(r)

SpecRenders == InitRenders /\ [][NextRenders]_vars

\* -------------------------------------------------------------- two renders claims

\* the render r has returned what tryRecover returns for its context when it is
\* the only render
AsAlone(r) ==
    exec.renders[r].out = tryRecover(exec.renders[r].c, keys, managers, missingKey)

MatchLists == {<<>>, <<mNote>>, <<mReads>>, <<mNote, mReads>>, <<mTrap>>,
               <<mDecline, mReads>>}

\* a template whose managers were registered under two names, before it renders
InitMatch ==
    /\ managers \in {Register(Register(EmptyMap, <<1>>, l1), <<2>>, l2) :
                        l1 \in MatchLists, l2 \in MatchLists}
    /\ keys \in {SortStrings(order) : order \in MapOrders(DOMAIN managers)}
    /\ missingKey = mapInvalid
    /\ ctx = newContext(0, None, "", nilv, nilv)
    /\ orig = NoCall
    /\ invoked = <<>>
    /\ ret = NoReturn
    /\ em = NoManager
    /\ probe = NoProbe
    /\ removed = None
    /\ call = NoAdapterCall
    /\ exec = NoExec

\* a call fails, or leaves no result
NextMatch ==
    \E err \in Failures, name \in MemberNames, slot \in Slots :
        Result(CallError, err, name, slot[1], slot[2])

SpecMatch == InitMatch /\ [][NextMatch]_vars

\* -------------------------------------------------------------- match groups claims

\* the last handler that ran substituted what it read with Match("error")
ReadMatch ==
    /\ Len(invoked) > 0
    /\ InvokedManager(Len(invoked)).fun.val = "match"
    /\ InvokedManager(Len(invoked)).fun.act # NoReplace

\* the "error" group of the first filter of the list that matches the text
OwnGroup(filters, text) ==
    MapGet(FillMatches(EmptyMap,
                       FindStringSubmatch(
                           filters[SetMin({i \in 1..Len(filters) :
                                             MatchesSomewhere(filters[i], text)})], text),
                       SubexpNames(filters[SetMin({i \in 1..Len(filters) :
                                             MatchesSomewhere(filters[i], text)})]), 0),
           "error")

\* C31 as stated: what a handler reads through Match comes from a filter of
\* its own manager matched against the current failure text, and a handler of a
\* manager without filters reads the empty string for every name, whatever an
\* earlier manager of the same tryRecover call recorded.
C31_MatchesOwnFilter ==
    (orig.op = "result" /\ ret.created /\ ReadMatch) =>
        ctx.result.data[1] =
            IF Len(InvokedManager(Len(invoked)).filters) = 0 THEN <<>>
            ELSE OwnGroup(InvokedManager(Len(invoked)).filters,
                          FailureAfter(Len(invoked) - 1)[1])

\* -------------------------------------------------------------- options

\* x << n on a non negative int that stays far below the width of int
ShiftLeft(x, n) == x * 2^n

\* AllOptions = FlowControl<<2 - 1, where << binds tighter than -
AllOptions == ShiftLeft(OptFlowControl, 2) - 1

\* o&current != 0 for current a single bit
HasBit(o, current) == (o \div current) % 2 = 1

RECURSIVE ListFrom(_, _, _)
\* for current := Option(1); current <= Option(AllOptions); current <<= 1 {
\*     if o&current != 0 { result = append(result, current) } }
ListFrom(o, current, result) ==
    IF current > AllOptions THEN result
    ELSE ListFrom(o, ShiftLeft(current, 1),
                  IF HasBit(o, current) THEN Append(result, current) ELSE result)

\* Option.List
List(o) == ListFrom(o, 1, <<>>)

\* -------------------------------------------------------------- options alone

\* an Option value, before List is called on it
InitOption ==
    /\ managers = EmptyMap
    /\ keys = <<>>
    /\ missingKey = mapInvalid
    /\ ctx = newContext(0, None, "", nilv, nilv)
    /\ orig = NoCall
    /\ invoked = <<>>
    /\ ret = NoReturn
    /\ em = NoManager
    /\ probe = NoProbe
    /\ removed = None
    /\ call = NoAdapterCall
    /\ exec \in {[NoExec EXCEPT !.pos = o, !.phase = "option"] : o \in 0..MaxOption}

\* o.List()
ListCalled ==
    /\ exec.phase = "option"
    /\ exec' = [exec EXCEPT !.out = List(exec.pos), !.phase = "listed"]
    /\ Executing

SpecOption == InitOption /\ [][ListCalled]_vars

\* -------------------------------------------------------------- options claims

\* the options the package defines, in ascending bit order
DefinedOptions ==
    <<FunctionsAsMethods, FunctionsWithContext, PublicFunctions, Trap, Eval,
      OptFlowControl>>

RECURSIVE SetBitsFrom(_, _)
\* the defined options from the i-th on that are set in o, in ascending order
SetBitsFrom(o, i) ==
    IF i > Len(DefinedOptions) THEN <<>>
    ELSE (IF HasBit(o, DefinedOptions[i]) THEN <<DefinedOptions[i]>> ELSE <<>>)
         \o SetBitsFrom(o, i + 1)

\* C32 as stated: AllOptions is the union of the six defined option bits,
\* and List() of an option value returns exactly those of the six that are set
\* in it, each once, in ascending bit order (all six for AllOptions).
C32_ListDefinedOptions ==
    exec.phase = "listed" =>
        /\ AllOptions = FunctionsAsMethods + FunctionsWithContext + PublicFunctions
                            + Trap + Eval + OptFlowControl
        /\ exec.out = SetBitsFrom(exec.pos, 1)

\* -------------------------------------------------------------- action conversion alone

\* AllActions = ^MissingAction(0), every bit of the uint8 set
AllActions == 255

\* the index a of missingKeyAction.convert is inside its table of three
InTable(a) == a \in 0..2

\* a.convert() on the side given: a public MissingAction to the engine, or a
\* missingKeyAction of the engine to the public one, which indexes a table
Convert(side, a) ==
    IF side = "public" THEN [value |-> ConvertToNative(a), rec |-> NoPanic]
    ELSE IF InTable(a) THEN [value |-> ConvertToPublic(a), rec |-> NoPanic]
    ELSE [value |-> a, rec |-> IndexOutOfRange]

\* the other side
Other(side) == IF side = "public" THEN "engine" ELSE "public"

\* a value of one of the two types, before it is converted
InitConvert ==
    /\ managers = EmptyMap
    /\ keys = <<>>
    /\ missingKey = mapInvalid
    /\ ctx = newContext(0, None, "", nilv, nilv)
    /\ orig = NoCall
    /\ invoked = <<>>
    /\ ret = NoReturn
    /\ em = NoManager
    /\ probe = NoProbe
    /\ removed = None
    /\ call = NoAdapterCall
    /\ exec \in {[NoExec EXCEPT !.stmt = "public", !.pos = a, !.phase = "value"] :
                    a \in 0..AllActions}
                \cup {[NoExec EXCEPT !.stmt = "engine", !.pos = a, !.phase = "value"] :
                    a \in 0..MaxAction}

\* a.convert()
ConvertCalled ==
    /\ exec.phase = "value"
    /\ exec' = [exec EXCEPT !.out = <<Convert(exec.stmt, exec.pos).value>>,
                            !.rec = Convert(exec.stmt, exec.pos).rec,
                            !.phase = "converted"]
    /\ Executing

\* a.convert().convert(), when the first conversion returned
ConvertedBack ==
    /\ exec.phase = "converted"
    /\ exec.rec = NoPanic
    /\ exec' = [exec EXCEPT !.out = Append(@, Convert(Other(exec.stmt), exec.out[1]).value),
                            !.rec = Convert(Other(exec.stmt), exec.out[1]).rec,
                            !.phase = "back"]
    /\ Executing

NextConvert == ConvertCalled \/ ConvertedBack

SpecConvert == InitConvert /\ [][NextConvert]_vars

\* -------------------------------------------------------------- action conversion claims

\* C33: each of the three engine actions converted to the public action
\* and back is itself; Invalid, ZeroValue and Error convert to mapInvalid,
\* mapZeroValue and mapError; every other public value converts to mapInvalid;
\* converting an engine value outside the three panics.
C33_ActionConversion ==
    /\ (exec.phase = "back" /\ exec.stmt = "engine") =>
          /\ exec.rec = NoPanic
          /\ exec.pos \in {mapInvalid, mapZeroValue, mapError}
          /\ exec.out[2] = exec.pos
    /\ (exec.phase = "converted" /\ exec.stmt = "public") =>
          /\ exec.rec = NoPanic
          /\ exec.out[1] = CASE exec.pos = Invalid -> mapInvalid
                             [] exec.pos = ZeroValue -> mapZeroValue
                             [] exec.pos = Error -> mapError
                             [] OTHER -> mapInvalid
    /\ (exec.phase = "converted" /\ exec.stmt = "engine") =>
          IF exec.pos \in {mapInvalid, mapZeroValue, mapError}
          THEN /\ exec.rec = NoPanic
               /\ exec.out[1] = CASE exec.pos = mapInvalid -> Invalid
                                  [] exec.pos = mapZeroValue -> ZeroValue
                                  [] OTHER -> Error
          ELSE exec.rec # NoPanic

\* mapError converted to Error and back to mapError
C33_Witness ==
    /\ exec.phase = "back" /\ exec.stmt = "engine" /\ exec.pos = mapError
    /\ exec.out = <<Error, mapError>>

\* AllActions converted to mapInvalid
C33_AllActionsWitness ==
    /\ exec.phase = "converted" /\ exec.stmt = "public" /\ exec.pos = AllActions
    /\ exec.out = <<mapInvalid>>

\* missingKeyAction(3).convert() panics
C33_PanicWitness ==
    /\ exec.phase = "converted" /\ exec.stmt = "engine" /\ exec.pos = 3
    /\ exec.rec = IndexOutOfRange

\* -------------------------------------------------------------- contexts without failure

\* C34: on a context that carries no failure, a manager with at least one
\* filter never manages the context, and CanManage tries no filter on it (no
\* match group is recorded) and does not panic.
C34_NoFailureNoFilter ==
    (probe.done /\ ctx.err = None /\ Len(em.filters) > 0) =>
        /\ ~probe.ok
        /\ ~probe.panic
        /\ ctx.matches = EmptyMap

\* a print context without failure was refused by a manager with two filters
\* whose source, mode, member and kind checks all pass
C34_Witness ==
    /\ probe.done /\ ~probe.ok /\ ctx.err = None /\ ctx.source = PrintSource
    /\ Len(em.filters) = 2
    /\ MasksPass(em, ctx, missingKey) /\ MembersPass(em, ctx) /\ KindsPass(em, ctx)

\* -------------------------------------------------------------- valid results

\* some registered manager would manage the context of the last call
SomeManages ==
    \E slot \in RegisteredSlots :
        CanManage(managers[slot[1]][slot[2]], OrigContext, missingKey).ok

\* C35: when a field or call site produced no failure and its result slot
\* holds a valid non-nil value, state.result returns nil, creates no context
\* and runs no handler, whatever managers are registered; so a handler of
\* such a site has run only on a failure or on an invalid or nil result.
C35_ValidResultSkipsHandlers ==
    /\ (orig.op = "result" /\ orig.err = None /\ isValid(orig.result)) =>
          /\ ~ret.created
          /\ ~ret.panicked
          /\ ret.err = None
          /\ invoked = <<>>
          /\ ctx.result = orig.result
    /\ (orig.op = "result" /\ invoked # <<>>) =>
          (orig.err # None \/ ~isValid(orig.result))

\* a site without failure and with a valid result returned untouched although
\* a registered manager manages its context
C35_Witness ==
    /\ orig.op = "result" /\ orig.err = None /\ isValid(orig.result)
    /\ hasErrorManagers(managers)
    /\ SomeManages
    /\ ~ret.created /\ invoked = <<>>

\* -------------------------------------------------------------- fixed parameters

\* the values given to the callable by the last call: the context when it is
\* injected, the argument expressions and the piped value
Given == (IF call.injectSelf THEN 1 ELSE 0) + ArgCount(call.args, call.final)

\* the parameters of the callable of the last call before its variadic one
FixedParams == NumIn(call.fn) - 1

\* C36 as stated: a variadic callable with at least one fixed parameter
\* that is given fewer arguments (expressions plus piped value) than its fixed
\* parameters is not invoked, and an arity failure is left in the context.
C36_TooFewForVariadic ==
    (call.done /\ call.fn.variadic /\ FixedParams >= 1 /\ Given < FixedParams) =>
        /\ ~call.out.ran
        /\ ArityReported
        /\ call.out.panic = "none"

\* -------------------------------------------------------------- trap function

\* convertResult(result) of the flow control: "" for no value, the value for
\* one, the list for more
convertResultList(result) ==
    [kind |-> IF Len(result) = 0 THEN "string" ELSE IF Len(result) = 1 THEN "one" ELSE "list",
     data |-> result]

\* for _, arg := range list { switch err := arg.(type) { case error: ... } }
HasError(list) == \E k \in 1..Len(list) : list[k] = "error"

\* what the trap function leaves: the expressions evaluated, in order, the
\* value returned, the variables pushed, and the panic its deferred
\* context.Recover() receives
Trapped(evaluated, value, pushed, rec) ==
    [evaluated |-> evaluated, value |-> value, pushed |-> pushed, rec |-> rec]

\* the loop over context.EvalArgs() of the trap function and its return
TrapRange(first, second) ==
    IF second.panic # "none"
    THEN Trapped(first.evaluated \o second.evaluated, convertResultList(<<>>), <<>>,
                 ExecError(1))
    ELSE IF HasError(second.passed)
    THEN Trapped(first.evaluated \o second.evaluated, convertResultList(<<>>),
                 <<"$error">>, NoPanic)
    ELSE Trapped(first.evaluated \o second.evaluated, convertResultList(first.passed),
                 <<>>, NoPanic)

\* after args := context.EvalArgs()
TrapArgs(first, args, final) ==
    IF first.panic # "none"
    THEN Trapped(first.evaluated, convertResultList(<<>>), <<>>, ExecError(1))
    ELSE TrapRange(first, EvalArgs(args, final))

\* the function "trap" registered by the Trap option
trap(args, final) == TrapArgs(EvalArgs(args, final), args, final)

\* -------------------------------------------------------------- trap function alone

\* an argument expression of trap: one that gives a value, one that gives an
\* error value, one whose callable fails
TrapKinds == {"int", "string", "error", "fails"}

RECURSIVE TrapArgsOfLen(_)
TrapArgsOfLen(n) ==
    IF n = 0 THEN {<<>>}
    ELSE {<<kind>> \o rest : kind \in TrapKinds, rest \in TrapArgsOfLen(n - 1)}

\* the argument expressions of a call of trap
TrapArgLists == UNION {TrapArgsOfLen(n) : n \in 0..MaxArgs}

\* the value piped into trap: none, a value, an error value
TrapFinals == {None, Some("int"), Some("error")}

\* a template is about to call trap
InitTrapCall ==
    /\ managers = EmptyMap
    /\ keys = <<>>
    /\ missingKey = mapInvalid
    /\ ctx = newContext(0, None, "", nilv, nilv)
    /\ orig = NoCall
    /\ invoked = <<>>
    /\ ret = NoReturn
    /\ em = NoManager
    /\ probe = NoProbe
    /\ removed = None
    /\ call \in {[NoAdapterCall EXCEPT !.args = args, !.final = final] :
                    args \in TrapArgLists, final \in TrapFinals}
    /\ exec = NoExec

\* the outcome r of trap is recorded
TrapEnded(r) ==
    exec' = [exec EXCEPT !.phase = "trapped", !.given = r.evaluated,
                         !.under = <<r.value.kind>>, !.out = r.value.data,
                         !.stack = r.pushed, !.rec = r.rec]

\* trap is called with the context of the site
TrapCalled ==
    /\ exec.phase = "none"
    /\ TrapEnded(trap(call.args, call.final))
    /\ Executing

SpecTrapCall == InitTrapCall /\ [][TrapCalled]_vars

\* -------------------------------------------------------------- trap function claims

\* how many times the i-th argument expression, i counting from 0, was evaluated
Evaluations(i) ==
    Cardinality({k \in 1..Len(exec.given) : exec.given[k][1] = i})

\* C37 as stated: in a call of trap that evaluates its arguments without
\* failure every argument expression is evaluated exactly once, and in any call
\* none is evaluated more than once.
C37_TrapEvaluatesOnce ==
    exec.phase = "trapped" =>
        \A i \in 0..(Len(call.args) - 1) :
            /\ Evaluations(i) <= 1
            /\ exec.rec = NoPanic => Evaluations(i) = 1

====
